---- MODULE Spec2Model ----
(***************************************************************************)
(* Dragon-tiger list fact pipeline: DataProcessor._process_seat_data       *)
(* (dedup, sort, partition of the raw seat rows of one stock) feeding      *)
(* FundingBattleBuilder (amount parsing, per-side analysis, concentration  *)
(* and battle metrics).  Spec is that pipeline and process_file on a raw    *)
(* JSON file; SpecParse, SpecConc, SpecFormat and SpecIdent run one call   *)
(* of the parsers, of the concentration metrics, of _format_amount (read   *)
(* back by the parser) and of _identify_player on their own.               *)
(*                                                                         *)
(* Text is modelled as sequences of one-character strings.  The module is  *)
(* ASCII only, so the three unit characters of the source are written      *)
(*     "Y" for yi   (10^8 yuan marker, U+4EBF)                             *)
(*     "W" for wan  (10^4 yuan marker, U+4E07)                             *)
(*     "y" for yuan (currency character, U+5143)                           *)
(* Numbers: raw amounts are integers in yuan; a parsed float is the exact  *)
(* decimal [m, e] = m / 10^e; amounts in wan are kept in hundredths of a   *)
(* wan ("cw", 1 cw = 100 yuan); percentages rounded to one decimal are     *)
(* kept in tenths of a percent.  round() and the .2f format are modelled   *)
(* as round-half-to-even on the exact value.                               *)
(***************************************************************************)
EXTENDS Integers, Sequences, FiniteSets, TLC

VARIABLES pc, top_data, raw_data, facts, arg, ret, amounts, metrics,
          text, exalter, hm_list_df, seat_player_info, output_file, success

\* concurrent calls of the core: the style-profile table, the frames of the
\* calls and the calls themselves
VARIABLES player_profiles, frames, calls

\* the per-date batch of DragonTigerPipeline
VARIABLES mode, date_stocks, task_state, analysis_results, summary

\* FundingBattlePipeline.run_full_pipeline
VARIABLES pipeline_result, stages_run

\* HuoshanDeepSeekInterface.generate_json_output
VARIABLES max_retries, api_calls, json_output

\* the multi-turn conversation of HuoshanDeepSeekInterface and the chatbot on it
VARIABLES conversation_history, call_raised,
          is_conversation_started, current_stock_data, conversation_context, chat_response

threadVars == <<player_profiles, frames, calls>>

batchVars == <<mode, date_stocks, task_state, analysis_results, summary>>

stageVars == <<pipeline_result, stages_run>>

retryVars == <<max_retries, api_calls, json_output>>

chatVars == <<conversation_history, call_raised>>

botVars == <<is_conversation_started, current_stock_data, conversation_context, chat_response>>

laterVars == <<threadVars, batchVars, stageVars, retryVars, chatVars, botVars>>

vars == <<pc, top_data, raw_data, facts, arg, ret, amounts, metrics,
          text, exalter, hm_list_df, seat_player_info, output_file, success, laterVars>>

(***************************************************************************)
(* Bounds of the model                                                     *)
(***************************************************************************)
MaxRows == 3        \* raw seat rows of one trading day
MaxFileSeats == 2   \* seats per side in a raw JSON file read by the builder
MaxStrLen == 4      \* length of an arbitrary amount / percentage text
MaxAmounts == 6     \* length of an amount list given to the concentration metrics
MaxSeatNameLen == 2  \* characters of a seat name given to the registry matcher
MaxRegistry == 3    \* rows of the registry given to the registry matcher

(***************************************************************************)
(* Arithmetic helpers                                                      *)
(***************************************************************************)
Abs(n) == IF n < 0 THEN -n ELSE n

Min(a, b) == IF a < b THEN a ELSE b

Max(a, b) == IF a > b THEN a ELSE b

\* n / d rounded to the nearest integer, ties to even (n >= 0, d > 0)
RoundHalfEvenNat(n, d) ==
    LET q == n \div d
        r == n % d
    IN  IF 2 * r < d THEN q
        ELSE IF 2 * r > d THEN q + 1
        ELSE IF q % 2 = 0 THEN q ELSE q + 1

\* n / d rounded to the nearest integer, ties to even, any sign of n, d # 0
RoundHalfEven(n, d) ==
    LET neg == (n < 0) # (d < 0)
        q == RoundHalfEvenNat(Abs(n), Abs(d))
    IN  IF neg THEN -q ELSE q

RECURSIVE SumSeq(_)
SumSeq(s) == IF s = <<>> THEN 0 ELSE Head(s) + SumSeq(Tail(s))

\* the first k elements of s (Python s[:k])
Take(s, k) == SubSeq(s, 1, Min(k, Len(s)))

\* sequences over S of length 0..n
RECURSIVE SeqsUpTo(_, _)
SeqsUpTo(S, n) ==
    IF n = 0 THEN {<<>>}
    ELSE LET shorter == SeqsUpTo(S, n - 1)
         IN  shorter \cup {Append(s, x) : s \in {t \in shorter : Len(t) = n - 1}, x \in S}

(***************************************************************************)
(* Text helpers (Python str operations)                                    *)
(***************************************************************************)
Digits == <<"0", "1", "2", "3", "4", "5", "6", "7", "8", "9">>

DigitChars == {Digits[i] : i \in 1..10}

DigitChar(d) == Digits[d + 1]

DigitVal(c) == (CHOOSE i \in 1..10 : Digits[i] = c) - 1

\* c in s
Contains(s, c) == \E i \in 1..Len(s) : s[i] = c

\* s.replace(c, "")
RECURSIVE Remove(_, _)
Remove(s, c) ==
    IF s = <<>> THEN <<>>
    ELSE IF Head(s) = c THEN Remove(Tail(s), c)
    ELSE <<Head(s)>> \o Remove(Tail(s), c)

\* s.strip() for the only whitespace character of the model, " "
RECURSIVE LStrip(_)
LStrip(s) == IF s # <<>> /\ Head(s) = " " THEN LStrip(Tail(s)) ELSE s

RECURSIVE RStrip(_)
RStrip(s) == IF s # <<>> /\ s[Len(s)] = " " THEN RStrip(SubSeq(s, 1, Len(s) - 1)) ELSE s

Strip(s) == RStrip(LStrip(s))

\* decimal digits of n >= 0, no grouping
RECURSIVE NatToStr(_)
NatToStr(n) == IF n < 10 THEN <<DigitChar(n)>> ELSE NatToStr(n \div 10) \o <<DigitChar(n % 10)>>

\* decimal digits of n >= 0 with "," every three digits (format spec ",")
RECURSIVE NatToStrGrouped(_)
NatToStrGrouped(n) ==
    IF n < 1000 THEN NatToStr(n)
    ELSE NatToStrGrouped(n \div 1000) \o <<",">> \o
         <<DigitChar((n \div 100) % 10), DigitChar((n \div 10) % 10), DigitChar(n % 10)>>

\* f"{x:,.2f}" of the value h/100 (h >= 0), with the sign given apart: Python
\* prints the sign of a negative value also when it rounds to -0.00
Fmt2f(neg, h, grouped) ==
    (IF neg THEN <<"-">> ELSE <<>>) \o
    (IF grouped THEN NatToStrGrouped(h \div 100) ELSE NatToStr(h \div 100)) \o
    <<".", DigitChar((h \div 10) % 10), DigitChar(h % 10)>>

(***************************************************************************)
(* Python float(text): [ok, m, e], the value m / 10^e when ok.  Accepted:  *)
(* an optional sign, then digits with at most one "." and at least one     *)
(* digit.  Anything else is ValueError (ok = FALSE).                       *)
(***************************************************************************)
RECURSIVE DigitsVal(_)
DigitsVal(s) == IF s = <<>> THEN 0 ELSE DigitsVal(SubSeq(s, 1, Len(s) - 1)) * 10 + DigitVal(s[Len(s)])

ParseFloat(s) ==
    LET signed == s # <<>> /\ Head(s) \in {"-", "+"}
        body == IF signed THEN Tail(s) ELSE s
        dots == {i \in 1..Len(body) : body[i] = "."}
        digs == Remove(body, ".")
        wellFormed == /\ Cardinality(dots) <= 1
                      /\ digs # <<>>
                      /\ \A i \in 1..Len(digs) : digs[i] \in DigitChars
        frac == IF dots = {} THEN 0 ELSE Len(body) - (CHOOSE i \in dots : TRUE)
        mag == DigitsVal(digs)
    IN  IF wellFormed
        THEN [ok |-> TRUE, m |-> IF signed /\ Head(s) = "-" THEN -mag ELSE mag, e |-> frac]
        ELSE [ok |-> FALSE, m |-> 0, e |-> 0]

(***************************************************************************)
(* Python values reaching the parsers: a str, None or a JSON number.       *)
(***************************************************************************)
Str(s) == [kind |-> "str", s |-> s, n |-> 0]

None == [kind |-> "none", s |-> <<>>, n |-> 0]

Num(n) == [kind |-> "num", s |-> <<>>, n |-> n]

\* Python truthiness: "not v"
Falsy(v) ==
    \/ v.kind = "none"
    \/ v.kind = "str" /\ v.s = <<>>
    \/ v.kind = "num" /\ v.n = 0

\* results of a parser call: a float m / 10^e, or an exception that escapes
Returned(m, e) == [raised |-> FALSE, exc |-> "", m |-> m, e |-> e]

Raised(exc) == [raised |-> TRUE, exc |-> exc, m |-> 0, e |-> 0]

\* float(x) inside "try: ... except (ValueError, TypeError): return 0.0"
FloatOrZero(s, factor) ==
    LET f == ParseFloat(s)
    IN  IF f.ok THEN Returned(f.m * factor, f.e) ELSE Returned(0, 0)

YiToWan == 10000

(***************************************************************************)
(* FundingBattleBuilder.parse_amount_to_wan                                *)
(***************************************************************************)
\* mutant: the thousands separators are left in
CleanAmountStrKeepsCommas(s) == Remove(Remove(s, " "), "y")

CleanAmountStr(s) == Remove(Remove(Remove(s, " "), "y"), ",")

\* mutant: the yi marker multiplies by 1,000
ParseAmountTextYiThousand(s) ==
    LET clean_str == CleanAmountStr(s)
    IN  IF Strip(s) = <<>> THEN Returned(0, 0)
        ELSE IF Contains(clean_str, "Y") THEN FloatOrZero(Remove(clean_str, "Y"), 1000)
        ELSE IF Contains(clean_str, "W") THEN FloatOrZero(Remove(clean_str, "W"), 1)
        ELSE FloatOrZero(clean_str, 1)

\* mutant: the yi branch drops the wan marker too
ParseAmountTextDropsBothMarkers(s) ==
    LET clean_str == CleanAmountStr(s)
    IN  IF Strip(s) = <<>> THEN Returned(0, 0)
        ELSE IF Contains(clean_str, "Y")
             THEN FloatOrZero(Remove(Remove(clean_str, "Y"), "W"), YiToWan)
        ELSE IF Contains(clean_str, "W") THEN FloatOrZero(Remove(clean_str, "W"), 1)
        ELSE FloatOrZero(clean_str, 1)

ParseAmountText(s) ==
    LET clean_str == CleanAmountStr(s)
    IN  IF Strip(s) = <<>> THEN Returned(0, 0)
        ELSE IF Contains(clean_str, "Y") THEN FloatOrZero(Remove(clean_str, "Y"), YiToWan)
        ELSE IF Contains(clean_str, "W") THEN FloatOrZero(Remove(clean_str, "W"), 1)
        ELSE FloatOrZero(clean_str, 1)

parse_amount_to_wan(v) ==
    IF Falsy(v) THEN Returned(0, 0)
    ELSE IF v.kind # "str" THEN Raised("AttributeError")   \* v.strip() on a number
    ELSE ParseAmountText(v.s)

(***************************************************************************)
(* FundingBattleBuilder.parse_percentage                                   *)
(***************************************************************************)
ParsePercentageText(s) ==
    IF Strip(s) = <<>> THEN Returned(0, 0)
    ELSE FloatOrZero(Strip(Remove(s, "%")), 1)

parse_percentage(v) ==
    IF Falsy(v) THEN Returned(0, 0)
    ELSE IF v.kind # "str" THEN Raised("AttributeError")
    ELSE ParsePercentageText(v.s)

\* a returned float in hundredths (amounts: cw), exact up to two fraction digits
Pow10(k) == IF k = 0 THEN 1 ELSE IF k = 1 THEN 10 ELSE IF k = 2 THEN 100 ELSE 10 ^ k

Hundredths(r) == IF r.e <= 2 THEN r.m * Pow10(2 - r.e) ELSE RoundHalfEven(r.m, Pow10(r.e - 2))

(***************************************************************************)
(* DataProcessor._format_amount and _format_percentage                     *)
(***************************************************************************)
NaN == [kind |-> "nan", s |-> <<>>, n |-> 0]

\* mutant: the yi rendering starts at 100,000,000
format_amount_from_one_yi(amount) ==
    IF amount.kind = "nan" \/ amount.n = 0 THEN <<"0", ".", "0", "0", "W", "y">>
    ELSE IF amount.n < 100000000
         THEN Fmt2f(amount.n < 0, RoundHalfEvenNat(Abs(amount.n), 100), TRUE) \o <<"W", "y">>
         ELSE Fmt2f(FALSE, RoundHalfEvenNat(amount.n, 1000000), TRUE) \o <<"Y", "y">>

\* amount: Num(integer yuan) or NaN
format_amount(amount) ==
    IF amount.kind = "nan" \/ amount.n = 0 THEN <<"0", ".", "0", "0", "W", "y">>
    ELSE IF amount.n < 10000000
         THEN Fmt2f(amount.n < 0, RoundHalfEvenNat(Abs(amount.n), 100), TRUE) \o <<"W", "y">>
         ELSE Fmt2f(FALSE, RoundHalfEvenNat(amount.n, 1000000), TRUE) \o <<"Y", "y">>

\* percentage: Num(thousandths of a percent) or NaN; round(x, 2) then "%.2f"
format_percentage(percentage) ==
    IF percentage.kind = "nan" THEN <<"0", ".", "0", "0", "%">>
    ELSE Fmt2f(percentage.n < 0, RoundHalfEvenNat(Abs(percentage.n), 10), FALSE) \o <<"%">>

(***************************************************************************)
(* Labels of the source (Chinese in the source, transliterated here)       *)
(***************************************************************************)
OrdinarySeat == "putongxiwei"            \* default player type and name
InstitutionOnly == "jigouzhuanyong"      \* marker in a seat name, and a registry name
Institution == "jigou"
Quant == "lianghua"
FamousTrader == "zhimingyouzi"
NoInfo == "zanwuxiangguanxinxi"          \* default description
StyleUnknown == "fenggeweiming"          \* default style
LongWins == "duofang"
ShortWins == "kongfang"
Tie == "pingju"

\* dict.get(key, default): a key that is absent is the value Missing
Missing == [kind |-> "missing", s |-> <<>>, n |-> 0]

Get(v, default) == IF v.kind = "missing" THEN default ELSE v

ZeroWanYuan == Str(<<"0", "W", "y">>)

(***************************************************************************)
(* FundingBattleBuilder.calculate_concentration_metrics                    *)
(* amounts: floats in wan, here integers in cw; percentages in tenths      *)
(***************************************************************************)
\* sorted(amounts, reverse=True)
RECURSIVE InsertDesc(_, _)
InsertDesc(x, s) ==
    IF s = <<>> THEN <<x>>
    ELSE IF x > Head(s) THEN <<x>> \o s
    ELSE <<Head(s)>> \o InsertDesc(x, Tail(s))

RECURSIVE SortDesc(_)
SortDesc(s) == IF s = <<>> THEN <<>> ELSE InsertDesc(Head(s), SortDesc(Tail(s)))

\* round(part / total * 100, 1) in tenths of a percent
Pct1(part, total) == RoundHalfEven(1000 * part, total)

ZeroMetrics == [top1_pct |-> 0, top2_pct |-> 0, top5_pct |-> 0]

\* mutant: the top-2 sum takes the slice [1:2], the second amount alone
calculate_concentration_metrics_slice12(amts) ==
    IF amts = <<>> THEN ZeroMetrics
    ELSE LET sorted_amounts == SortDesc(amts)
             total == SumSeq(amts)
             top2_sum == IF Len(sorted_amounts) >= 2 THEN sorted_amounts[2]
                         ELSE SumSeq(sorted_amounts)
             top5_sum == IF Len(sorted_amounts) >= 5 THEN SumSeq(SubSeq(sorted_amounts, 1, 5))
                         ELSE SumSeq(sorted_amounts)
         IN  IF total = 0 THEN ZeroMetrics
             ELSE [top1_pct |-> Pct1(sorted_amounts[1], total),
                   top2_pct |-> Pct1(top2_sum, total),
                   top5_pct |-> Pct1(top5_sum, total)]

\* mutant: the top-5 sum takes the slice [:4]
calculate_concentration_metrics_slice4(amts) ==
    IF amts = <<>> THEN ZeroMetrics
    ELSE LET sorted_amounts == SortDesc(amts)
             total == SumSeq(amts)
             top2_sum == IF Len(sorted_amounts) >= 2 THEN SumSeq(SubSeq(sorted_amounts, 1, 2))
                         ELSE SumSeq(sorted_amounts)
             top5_sum == IF Len(sorted_amounts) >= 5 THEN SumSeq(SubSeq(sorted_amounts, 1, 4))
                         ELSE SumSeq(sorted_amounts)
         IN  IF total = 0 THEN ZeroMetrics
             ELSE [top1_pct |-> Pct1(sorted_amounts[1], total),
                   top2_pct |-> Pct1(top2_sum, total),
                   top5_pct |-> Pct1(top5_sum, total)]

calculate_concentration_metrics(amts) ==
    IF amts = <<>> THEN ZeroMetrics
    ELSE LET sorted_amounts == SortDesc(amts)
             total == SumSeq(amts)
             top2_sum == IF Len(sorted_amounts) >= 2 THEN SumSeq(SubSeq(sorted_amounts, 1, 2))
                         ELSE SumSeq(sorted_amounts)
             top5_sum == IF Len(sorted_amounts) >= 5 THEN SumSeq(SubSeq(sorted_amounts, 1, 5))
                         ELSE SumSeq(sorted_amounts)
         IN  IF total = 0 THEN ZeroMetrics
             ELSE [top1_pct |-> Pct1(sorted_amounts[1], total),
                   top2_pct |-> Pct1(top2_sum, total),
                   top5_pct |-> Pct1(top5_sum, total)]

(***************************************************************************)
(* FundingBattleBuilder.analyze_side_data                                  *)
(***************************************************************************)
\* round(x, 1) of an amount in cw: a multiple of 10 cw
Round1(x) == 10 * RoundHalfEven(x, 10)

\* mutant: the sell side keeps the minus sign
SeatAmountKeepsSign(seat, side_type) ==
    LET amount_str == Get(seat.net_amount, ZeroWanYuan)
    IN  IF side_type = "buy" THEN parse_amount_to_wan(amount_str)
        ELSE IF amount_str.kind # "str" THEN Raised("AttributeError")
        ELSE parse_amount_to_wan(amount_str)

\* lines 143-151: the amount text of a seat and its parse
SeatAmount(seat, side_type) ==
    LET amount_str == Get(seat.net_amount, ZeroWanYuan)
    IN  IF side_type = "buy" THEN parse_amount_to_wan(amount_str)
        ELSE IF amount_str.kind # "str" THEN Raised("AttributeError")   \* .startswith
        ELSE IF amount_str.s # <<>> /\ Head(amount_str.s) = "-"
             THEN parse_amount_to_wan(Str(Tail(amount_str.s)))
             ELSE parse_amount_to_wan(amount_str)

\* lines 168-180: the player entry of a seat
PlayerData(seat, amount_wan) ==
    [seat_name |-> seat.seat_name,
     net_amount |-> Get(seat.net_amount, ZeroWanYuan),
     buy |-> seat.buy_amount,
     sell |-> seat.sell_amount,
     buy_rate |-> seat.buy_rate,
     sell_rate |-> seat.sell_rate,
     net_rate |-> IF amount_wan > 0
                  THEN Fmt2f(FALSE, RoundHalfEvenNat(amount_wan, 10000), FALSE) \o <<"%">>
                  ELSE <<"0", ".", "0", "0", "%">>,
     type |-> seat.player_info.type,
     name |-> seat.player_info.name,
     description |-> seat.player_info.description,
     style |-> seat.player_info.style]

EmptySide ==
    [raised |-> FALSE, total_amount_wan |-> 0, player_count |-> 0, famous_player_count |-> 0,
     concentration_metrics |-> ZeroMetrics, contribution_by_type |-> <<>>, players |-> <<>>]

analyze_side_data(seats, side_type) ==
    LET parsed == [i \in 1..Len(seats) |-> SeatAmount(seats[i], side_type)]
        amount_list == [i \in 1..Len(seats) |-> Hundredths(parsed[i])]
        types == {seats[i].player_info.type : i \in 1..Len(seats)}
        OfType(ptype) == {i \in 1..Len(seats) : seats[i].player_info.type = ptype}
        TypeSum(ptype) ==
            LET idx == OfType(ptype)
                RECURSIVE Acc(_)
                Acc(k) == IF k = 0 THEN 0
                          ELSE Acc(k - 1) + (IF k \in idx THEN amount_list[k] ELSE 0)
            IN  Acc(Len(seats))
    IN  IF seats = <<>> THEN EmptySide
        ELSE IF \E i \in 1..Len(seats) : parsed[i].raised THEN Raised("AttributeError")
        ELSE [raised |-> FALSE,
              total_amount_wan |-> Round1(SumSeq(amount_list)),
              player_count |-> Len(seats),
              famous_player_count |-> Cardinality(OfType(FamousTrader)),
              concentration_metrics |-> calculate_concentration_metrics(amount_list),
              contribution_by_type |-> [ptype \in types |-> Round1(TypeSum(ptype))],
              players |-> [i \in 1..Len(seats) |-> PlayerData(seats[i], amount_list[i])]]

(***************************************************************************)
(* FundingBattleBuilder.calculate_battle_metrics                           *)
(***************************************************************************)
\* mutant: a zero advantage goes to the long side
WinnerNonNegative(net_advantage_wan) ==
    IF net_advantage_wan >= 0 THEN LongWins
    ELSE IF net_advantage_wan < 0 THEN ShortWins
    ELSE Tie

Winner(net_advantage_wan) ==
    IF net_advantage_wan > 0 THEN LongWins
    ELSE IF net_advantage_wan < 0 THEN ShortWins
    ELSE Tie

\* mutant: abs() is forgotten
NetAdvantagePctSigned(net_advantage_wan, total_amount) ==
    IF total_amount > 0 THEN Pct1(net_advantage_wan, total_amount) ELSE 0

NetAdvantagePct(net_advantage_wan, total_amount) ==
    IF total_amount > 0 THEN Pct1(Abs(net_advantage_wan), total_amount) ELSE 0

calculate_battle_metrics(long_side, short_side, basic_info) ==
    LET long_amount == long_side.total_amount_wan
        short_amount == short_side.total_amount_wan
        net_advantage_wan == long_amount - short_amount
        total_amount == long_amount + short_amount
        on_list == parse_percentage(Get(basic_info.amount_rate, Str(<<"0", ".", "0", "0", "%">>)))
    IN  IF on_list.raised THEN Raised(on_list.exc)
        ELSE [raised |-> FALSE,
              net_advantage_wan |-> Round1(net_advantage_wan),
              winner |-> Winner(net_advantage_wan),
              net_advantage_pct |-> NetAdvantagePct(net_advantage_wan, total_amount),
              on_list_turnover_pct |-> RoundHalfEven(Hundredths(on_list), 10)]

(***************************************************************************)
(* FundingBattleBuilder.build_structured_facts                             *)
(***************************************************************************)
NoFacts == [raised |-> FALSE, empty |-> TRUE]

\* mutant: a turnover share absent from basic_info is filled in with its default
BuildFactsFilledInfo(stock_data, long_seats, short_seats) ==
    LET long_side_facts == analyze_side_data(long_seats, "buy")
        short_side_facts == analyze_side_data(short_seats, "sell")
        battle_facts == calculate_battle_metrics(long_side_facts, short_side_facts,
                                                 stock_data.basic_info)
    IN  IF long_side_facts.raised \/ short_side_facts.raised
        THEN [raised |-> TRUE, empty |-> FALSE]
        ELSE IF battle_facts.raised THEN [raised |-> TRUE, empty |-> FALSE]
        ELSE [raised |-> FALSE, empty |-> FALSE,
              ts_code |-> stock_data.ts_code,
              name |-> stock_data.name,
              raw_basic_info |-> [stock_data.basic_info EXCEPT
                                     !.amount_rate = Get(@, Str(<<"0", ".", "0", "0", "%">>))],
              long_side_facts |-> long_side_facts,
              short_side_facts |-> short_side_facts,
              battle_facts |-> battle_facts]

\* lines 256-283 for the stock block and the seat lists analysed as the long
\* and as the short side
BuildFacts(stock_data, long_seats, short_seats) ==
    LET long_side_facts == analyze_side_data(long_seats, "buy")
        short_side_facts == analyze_side_data(short_seats, "sell")
        battle_facts == calculate_battle_metrics(long_side_facts, short_side_facts,
                                                 stock_data.basic_info)
    IN  IF long_side_facts.raised \/ short_side_facts.raised
        THEN [raised |-> TRUE, empty |-> FALSE]
        ELSE IF battle_facts.raised THEN [raised |-> TRUE, empty |-> FALSE]
        ELSE [raised |-> FALSE, empty |-> FALSE,
              ts_code |-> stock_data.ts_code,
              name |-> stock_data.name,
              raw_basic_info |-> stock_data.basic_info,
              long_side_facts |-> long_side_facts,
              short_side_facts |-> short_side_facts,
              battle_facts |-> battle_facts]

\* raw_data.get("stocks", []): raw is [keys, stocks], keys the keys of the dict
Stocks(raw) == IF "stocks" \in raw.keys THEN raw.stocks ELSE <<>>

\* mutant: the seat lists are re-split by the sign of the net amount text
build_structured_facts_resplit(raw) ==
    IF Stocks(raw) = <<>> THEN NoFacts
    ELSE LET sd == raw.stocks[1].seat_data
             all == sd.buy_seats \o sd.sell_seats
             Negative(seat) == /\ seat.net_amount.kind = "str"
                               /\ seat.net_amount.s # <<>>
                               /\ Head(seat.net_amount.s) = "-"
             NotNegative(seat) == ~Negative(seat)
         IN  BuildFacts(raw.stocks[1], SelectSeq(all, NotNegative), SelectSeq(all, Negative))

\* mutant: the last stock of the list is taken
build_structured_facts_last_stock(raw) ==
    IF Stocks(raw) = <<>> THEN NoFacts
    ELSE LET stock_data == Stocks(raw)[Len(Stocks(raw))]
         IN  BuildFacts(stock_data, stock_data.seat_data.buy_seats, stock_data.seat_data.sell_seats)

build_structured_facts(raw) ==
    IF Stocks(raw) = <<>> THEN NoFacts
    ELSE LET stock_data == Stocks(raw)[1]
         IN  BuildFacts(stock_data, stock_data.seat_data.buy_seats, stock_data.seat_data.sell_seats)

\* no output file has been written
NoFile == [written |-> FALSE]

\* save_structured_facts: the file written when open() and json.dump succeed
SavedFile(structured_facts) == [written |-> TRUE, content |-> structured_facts]

(***************************************************************************)
(* DataProcessor._identify_player and its helpers                          *)
(* hm_list rows: [name, desc, orgs]; orgs is the raw alias text, modelled  *)
(* by what json.loads makes of it: a list of alias names, a text that is   *)
(* not JSON (JSONDecodeError) or a missing value (AttributeError).         *)
(***************************************************************************)
\* a in b (Python substring test)
IsSubstr(a, b) == \E i \in 1..(Len(b) + 1) : i + Len(a) - 1 <= Len(b) /\ SubSeq(b, i, i + Len(a) - 1) = a

\* the four characters of the institution-only marker, two in the model
InstitutionMarker == <<"J", "Z">>

QuantNames == {"lianghuaqiangchou", "lianghuadaban", "lianghuajijin", "jingjiaqiangchou"}

InstitutionNames == {"shengutongzhuanyong", "hugutongzhuanyong", InstitutionOnly,
                     "jingwaijigou", "zhongxinzongbu"}

\* mutant: a description that speaks of a quant desk decides too
determine_player_type_by_description(name, description) ==
    IF name \in QuantNames \/ description = Quant THEN Quant
    ELSE IF name \in InstitutionNames THEN Institution
    ELSE FamousTrader

determine_player_type(name, description) ==
    IF name \in QuantNames THEN Quant
    ELSE IF name \in InstitutionNames THEN Institution
    ELSE FamousTrader

StyleNoDetail == "zanwuxiangxixinxi"

\* self.player_profiles: name -> style profile with its empty fields dropped
PlayerProfiles == [n \in {"zhaolaoge", "lianghuadaban"} |->
                     IF n = "zhaolaoge" THEN "profile_zhaolaoge" ELSE ""]

get_player_style_from_profile(player_name) ==
    IF player_name \in DOMAIN PlayerProfiles /\ PlayerProfiles[player_name] # ""
    THEN PlayerProfiles[player_name]
    ELSE StyleNoDetail

OrgList(items) == [kind |-> "list", items |-> items]

OrgMalformed == [kind |-> "malformed", items |-> <<>>]

OrgNaN == [kind |-> "nan", items |-> <<>>]

\* the registry of the model: one row per known player
HmList ==
    << [name |-> "zhaolaoge", desc |-> "d1", orgs |-> OrgList(<< <<"a", "b">> >>)],
       [name |-> "broken", desc |-> "d2", orgs |-> OrgMalformed],
       [name |-> InstitutionOnly, desc |-> "d3", orgs |-> OrgList(<< InstitutionMarker >>)],
       [name |-> "lianghuadaban", desc |-> "d4", orgs |-> OrgList(<< <<"c">>, <<"a", "b">> >>)] >>

\* mutant: the first character of the marker is enough
DefaultPlayerInfoLooseMarker(seat_name) ==
    [name |-> OrdinarySeat,
     type |-> IF IsSubstr(<<"J">>, seat_name) THEN InstitutionOnly ELSE OrdinarySeat,
     description |-> NoInfo,
     style |-> StyleUnknown]

DefaultPlayerInfo(seat_name) ==
    [name |-> OrdinarySeat,
     type |-> IF IsSubstr(InstitutionMarker, seat_name) THEN InstitutionOnly ELSE OrdinarySeat,
     description |-> NoInfo,
     style |-> StyleUnknown]

RowMatches(hm_row, seat_name) ==
    /\ hm_row.orgs.kind = "list"
    /\ \E i \in 1..Len(hm_row.orgs.items) :
          IsSubstr(hm_row.orgs.items[i], seat_name) \/ IsSubstr(seat_name, hm_row.orgs.items[i])

MatchedPlayerInfo(hm_row) ==
    [name |-> hm_row.name,
     type |-> determine_player_type(hm_row.name, hm_row.desc),
     description |-> hm_row.desc,
     style |-> get_player_style_from_profile(hm_row.name)]

\* the loop over hm_list from row k on, player_info being the value so far
RECURSIVE IdentifyFrom(_, _, _, _)
IdentifyFrom(seat_name, hm_list, k, player_info) ==
    IF k > Len(hm_list) THEN player_info
    ELSE IF hm_list[k].orgs.kind # "list"
         THEN IdentifyFrom(seat_name, hm_list, k + 1, player_info)       \* except: continue
    ELSE LET found == IF RowMatches(hm_list[k], seat_name)
                      THEN MatchedPlayerInfo(hm_list[k]) ELSE player_info
         IN  IF found.type \notin {OrdinarySeat, InstitutionOnly} THEN found   \* break
             ELSE IdentifyFrom(seat_name, hm_list, k + 1, found)

\* the loop without the break of line 446-447
RECURSIVE IdentifyFromNoBreak(_, _, _, _)
IdentifyFromNoBreak(seat_name, hm_list, k, player_info) ==
    IF k > Len(hm_list) THEN player_info
    ELSE IF hm_list[k].orgs.kind # "list"
         THEN IdentifyFromNoBreak(seat_name, hm_list, k + 1, player_info)
    ELSE IdentifyFromNoBreak(seat_name, hm_list, k + 1,
                             IF RowMatches(hm_list[k], seat_name)
                             THEN MatchedPlayerInfo(hm_list[k]) ELSE player_info)

\* mutant: the scan goes on after a match, the last matching row wins
identify_player_no_break(seat_name, hm_list) ==
    IdentifyFromNoBreak(seat_name, hm_list, 1, DefaultPlayerInfo(seat_name))

\* the loop with "except: break" in place of "except: continue"
RECURSIVE IdentifyFromStopAtMalformed(_, _, _, _)
IdentifyFromStopAtMalformed(seat_name, hm_list, k, player_info) ==
    IF k > Len(hm_list) THEN player_info
    ELSE IF hm_list[k].orgs.kind # "list" THEN player_info
    ELSE LET found == IF RowMatches(hm_list[k], seat_name)
                      THEN MatchedPlayerInfo(hm_list[k]) ELSE player_info
         IN  IF found.type \notin {OrdinarySeat, InstitutionOnly} THEN found
             ELSE IdentifyFromStopAtMalformed(seat_name, hm_list, k + 1, found)

\* mutant: a row whose alias list cannot be parsed ends the scan
identify_player_stops_at_malformed(seat_name, hm_list) ==
    IdentifyFromStopAtMalformed(seat_name, hm_list, 1, DefaultPlayerInfo(seat_name))

identify_player(seat_name, hm_list) ==
    IdentifyFrom(seat_name, hm_list, 1, DefaultPlayerInfo(seat_name))

(***************************************************************************)
(* DataProcessor._process_seat_data                                        *)
(* top_data rows: [ts_code, exalter, buy, sell, net_buy, buy_rate,         *)
(* sell_rate, reason]; amounts in yuan, rates in thousandths of a percent  *)
(***************************************************************************)
\* mutant: rows are grouped by seat name alone
DedupKeyNameOnly(row) == <<row.exalter>>

DedupKey(row) == <<row.exalter, row.buy, row.sell, row.net_buy, row.buy_rate, row.sell_rate>>

\* DataFrame.drop_duplicates(subset=...): the first row of each key is kept
RECURSIVE drop_duplicates(_)
drop_duplicates(rows) ==
    IF rows = <<>> THEN <<>>
    ELSE LET kept == drop_duplicates(SubSeq(rows, 1, Len(rows) - 1))
             last == rows[Len(rows)]
         IN  IF \E i \in 1..Len(kept) : DedupKey(kept[i]) = DedupKey(last)
             THEN kept ELSE Append(kept, last)

\* DataFrame.sort_values('net_buy', ascending=False); rows of equal net_buy keep
\* their order here
RECURSIVE InsertByNetDesc(_, _)
InsertByNetDesc(row, s) ==
    IF s = <<>> THEN <<row>>
    ELSE IF row.net_buy > Head(s).net_buy THEN <<row>> \o s
    ELSE <<Head(s)>> \o InsertByNetDesc(row, Tail(s))

RECURSIVE SortByNetDesc(_)
SortByNetDesc(rows) ==
    IF rows = <<>> THEN <<>>
    ELSE InsertByNetDesc(rows[Len(rows)], SortByNetDesc(SubSeq(rows, 1, Len(rows) - 1)))

\* mutant: the sort is forgotten
sort_values_skipped(rows) == rows

sort_values_net_desc(rows) == SortByNetDesc(rows)

\* lines 386-394
SeatInfo(seat_row, hm_list) ==
    [seat_name |-> seat_row.exalter,
     buy_amount |-> format_amount(Num(Max(0, seat_row.buy))),
     sell_amount |-> format_amount(Num(Max(0, seat_row.sell))),
     net_amount |-> Str(format_amount(Num(seat_row.net_buy))),
     buy_rate |-> format_percentage(Num(Max(0, seat_row.buy_rate))),
     sell_rate |-> format_percentage(Num(Max(0, seat_row.sell_rate))),
     player_info |-> identify_player(seat_row.exalter, hm_list)]

\* mutant: a zero net amount counts as a buy
IsBuyRowNonNegative(seat_row) == seat_row.net_buy >= 0

\* line 397: the side of a row
IsBuyRow(seat_row) == seat_row.net_buy > 0

process_seat_data(ts_code, top_data_df, hm_list) ==
    LET OfStock(row) == row.ts_code = ts_code
        NotBuyRow(row) == ~IsBuyRow(row)
        stock_seats == SelectSeq(top_data_df, OfStock)
        stock_seats_dedup == drop_duplicates(stock_seats)
        stock_seats_sorted == sort_values_net_desc(stock_seats_dedup)
        buy_rows == SelectSeq(stock_seats_sorted, IsBuyRow)
        sell_rows == SelectSeq(stock_seats_sorted, NotBuyRow)
        buy_total_raw == SumSeq([i \in 1..Len(stock_seats_sorted) |-> Max(0, stock_seats_sorted[i].buy)])
        sell_total_raw == SumSeq([i \in 1..Len(stock_seats_sorted) |-> Max(0, stock_seats_sorted[i].sell)])
    IN  IF stock_seats = <<>>
        THEN [buy_seats |-> <<>>, sell_seats |-> <<>>,
              buy_total |-> format_amount(Num(0)), sell_total |-> format_amount(Num(0))]
        ELSE [buy_seats |-> [i \in 1..Len(buy_rows) |-> SeatInfo(buy_rows[i], hm_list)],
              sell_seats |-> [i \in 1..Len(sell_rows) |-> SeatInfo(sell_rows[i], hm_list)],
              buy_total |-> format_amount(Num(buy_total_raw)),
              sell_total |-> format_amount(Num(sell_total_raw))]

(***************************************************************************)
(* Inputs of the model                                                     *)
(***************************************************************************)
TargetTsCode == "S1"

Row(ts, who, b, s, net, br, sr, why) ==
    [ts_code |-> ts, exalter |-> who, buy |-> b, sell |-> s, net_buy |-> net,
     buy_rate |-> br, sell_rate |-> sr, reason |-> why]

\* raw seat rows of the day (Tushare top_inst): yuan, thousandths of a percent
RowPool ==
    { Row("S1", <<"a", "b", "1">>, 10000000, 2000000, 8000000, 4460, 890, "r1"),
      Row("S1", <<"a", "b", "1">>, 10000000, 2000000, 8000000, 4460, 890, "r2"),
      Row("S1", <<"a", "b", "1">>, 5000000, 0, 5000000, 2230, 0, "r1"),
      Row("S1", <<"J", "Z">>, 0, 3000000, -3000000, 0, 1338, "r1"),
      Row("S1", <<"x">>, 1000000, 1000000, 0, 446, 446, "r1"),
      Row("S1", <<"x">>, 1000040, 1000000, 40, 446, 446, "r1"),
      Row("S1", <<"c", "x">>, 65000000, 0, 65000000, 28990, 0, "r2"),
      Row("S1", <<"x", "y">>, 0, 65000000, -65000000, 0, 28990, "r1"),
      Row("S2", <<"x">>, 7000000, 0, 7000000, 3000, 0, "r1") }

\* amount_rate of the stock in top_list: thousandths of a percent, or NaN
AmountRatePool == {Num(4460), NaN}

PlainSeat(who, net) ==
    [seat_name |-> who,
     buy_amount |-> <<"0", ".", "0", "0", "W", "y">>,
     sell_amount |-> <<"0", ".", "0", "0", "W", "y">>,
     net_amount |-> net,
     buy_rate |-> <<"0", ".", "0", "0", "%">>,
     sell_rate |-> <<"0", ".", "0", "0", "%">>,
     player_info |-> DefaultPlayerInfo(who)]

\* seats of a raw JSON file given to the builder: the file is not checked, so a
\* seat can sit on either side whatever its sign and its net_amount can be
\* unparsable text, null or a JSON number
FileSeatPool ==
    { PlainSeat(<<"x">>, Str(<<"-", "3", ".", "0", "4", "W", "y">>)),
      PlainSeat(<<"J", "Z">>, Str(<<"5", ".", "0", "4", "W", "y">>)),
      PlainSeat(<<"x">>, Str(<<"1", "-">>)),
      PlainSeat(<<"x">>, None),
      PlainSeat(<<"x">>, Num(5)) }

FileAmountRatePool == {Str(<<"4", ".", "4", "6", "%">>), Missing}

\* basic_info: the turnover share the builder reads and a field it never reads
StockInfo(ts, nm, rate, seats) ==
    [ts_code |-> ts, name |-> nm,
     basic_info |-> [amount_rate |-> rate, reasons |-> <<"r1", "r2">>],
     seat_data |-> seats]

RawData(keys, stocks) == [keys |-> keys, stocks |-> stocks]

\* the dict {}: what load_raw_data returns for a file it cannot read
NoRawData == RawData({}, <<>>)

\* the stocks of top_list in the order of the list, and their names
TopListCodes == <<"S1", "S2">>

TopListNames == <<"n1", "n2">>

\* what can follow the first stock in a raw JSON file: nothing, or a stock
\* whose seat has a number for net_amount
OtherStocksPool ==
    { <<>>,
      << StockInfo("S2", "n2", Missing,
                   [buy_seats |-> << PlainSeat(<<"x">>, Num(5)) >>, sell_seats |-> <<>>]) >> }

\* the raw JSON files given to the builder: unreadable or {}, without a stocks
\* key, with an empty stocks list, or with one or two stocks
FileInputs ==
    {NoRawData, RawData({"meta"}, <<>>), RawData({"meta", "stocks"}, <<>>)} \cup
    {RawData({"meta", "stocks"},
             << StockInfo(TargetTsCode, "n1", rate, [buy_seats |-> b, sell_seats |-> s]) >> \o rest) :
        b \in SeqsUpTo(FileSeatPool, MaxFileSeats), s \in SeqsUpTo(FileSeatPool, MaxFileSeats),
        rate \in FileAmountRatePool, rest \in OtherStocksPool}

NoRet == Returned(0, 0)

ThreadsIdle ==
    /\ player_profiles = PlayerProfiles
    /\ frames = <<>>
    /\ calls = <<>>

BatchIdle ==
    /\ mode = "idle"
    /\ date_stocks = <<>>
    /\ task_state = <<>>
    /\ analysis_results = <<>>
    /\ summary = [written |-> FALSE]

StagesIdle ==
    /\ pipeline_result = [returned |-> FALSE]
    /\ stages_run = <<>>

RetryIdle ==
    /\ max_retries = 0
    /\ api_calls = <<>>
    /\ json_output = [returned |-> FALSE]

ChatIdle ==
    /\ conversation_history = <<>>
    /\ call_raised = FALSE

BotIdle ==
    /\ is_conversation_started = FALSE
    /\ current_stock_data = FALSE
    /\ conversation_context = <<>>
    /\ chat_response = [returned |-> FALSE]

\* the variables of the other subsystems before any of them has run
OtherVarsIdle ==
    /\ ThreadsIdle /\ BatchIdle /\ StagesIdle /\ RetryIdle /\ ChatIdle /\ BotIdle
    /\ text = <<>>
    /\ exalter = <<>>
    /\ hm_list_df = <<>>
    /\ seat_player_info = DefaultPlayerInfo(<<>>)
    /\ output_file = NoFile
    /\ success = FALSE

(***************************************************************************)
(* The pipeline of one stock: fetch -> DataProcessor -> FundingBattleBuilder,*)
(* or a raw JSON file given to the builder directly                        *)
(***************************************************************************)
Init ==
    /\ pc = "start"
    /\ top_data = <<>>
    /\ raw_data = NoRawData
    /\ facts = NoFacts
    /\ arg = None
    /\ ret = NoRet
    /\ amounts = <<>>
    /\ metrics = ZeroMetrics
    /\ OtherVarsIdle

\* the day's seat rows arrive
FetchData ==
    /\ pc = "start"
    /\ top_data' \in SeqsUpTo(RowPool, MaxRows)
    /\ pc' = "raw"
    /\ UNCHANGED <<raw_data, facts, arg, ret, amounts, metrics, text, exalter, hm_list_df, seat_player_info, output_file, success>>
    /\ UNCHANGED laterVars

\* DataProcessor._process_stock_data: one entry per stock of top_list
ProcessStocks ==
    /\ pc = "raw"
    /\ \E rate \in AmountRatePool :
          raw_data' = RawData({"meta", "stocks"},
                              [i \in 1..Len(TopListCodes) |->
                                  StockInfo(TopListCodes[i], TopListNames[i], Str(format_percentage(rate)),
                                            process_seat_data(TopListCodes[i], top_data, HmList))])
    /\ pc' = "processed"
    /\ UNCHANGED <<top_data, facts, arg, ret, amounts, metrics, text, exalter, hm_list_df, seat_player_info, output_file, success>>
    /\ UNCHANGED laterVars

\* FundingBattleBuilder.process_file, its load_raw_data step: a file that no
\* processor wrote
LoadRawData ==
    /\ pc = "start"
    /\ raw_data' \in FileInputs
    /\ pc' = "loaded"
    /\ UNCHANGED <<top_data, facts, arg, ret, amounts, metrics, text, exalter, hm_list_df, seat_player_info, output_file, success>>
    /\ UNCHANGED laterVars

\* FundingBattleBuilder.build_structured_facts
BuildStructuredFacts ==
    /\ pc \in {"processed", "loaded"}
    /\ facts' = build_structured_facts(raw_data)
    /\ pc' = IF pc = "processed" THEN "built" ELSE "built_from_file"
    /\ UNCHANGED <<top_data, raw_data, arg, ret, amounts, metrics, text, exalter, hm_list_df, seat_player_info, output_file, success>>
    /\ UNCHANGED laterVars

\* the end of FundingBattleBuilder.process_file after load_raw_data and
\* build_structured_facts: an exception of the build leaves the call, an empty
\* result returns False, any other result goes to save_structured_facts, which
\* returns False when the file cannot be written
SaveStructuredFacts ==
    /\ pc = "built_from_file"
    /\ \/ /\ facts.raised
          /\ pc' = "file_raised"
          /\ UNCHANGED <<output_file, success>>
       \/ /\ ~facts.raised /\ facts.empty
          /\ pc' = "file_processed"
          /\ success' = FALSE
          /\ UNCHANGED output_file
       \/ /\ ~facts.raised /\ ~facts.empty
          /\ pc' = "file_processed"
          /\ \E io_ok \in BOOLEAN :
                /\ success' = io_ok
                /\ output_file' = IF io_ok THEN SavedFile(facts) ELSE output_file
    /\ UNCHANGED <<top_data, raw_data, facts, arg, ret, amounts, metrics,
                   text, exalter, hm_list_df, seat_player_info>>
    /\ UNCHANGED laterVars

Next == FetchData \/ ProcessStocks \/ LoadRawData \/ BuildStructuredFacts \/ SaveStructuredFacts

Spec == Init /\ [][Next]_vars

(***************************************************************************)
(* The parsers on their own: one call of parse_amount_to_wan or            *)
(* parse_percentage on a value drawn from ParserInputs                     *)
(***************************************************************************)
Alphabet == {"1", "5", ".", "-", ",", "Y", "W", "y", " ", "%"}

Units == {<<>>, <<"W">>, <<"Y">>}

WellFormedHundredths == {0, 65, 45611, 123456}

\* a well-formed amount text: [space] [-] d,ddd.dd [W|Y] [y]
AmountText(space, neg, h, unit, yuan) ==
    (IF space THEN <<" ">> ELSE <<>>) \o Fmt2f(neg, h, TRUE) \o unit \o
    (IF yuan THEN <<"y">> ELSE <<>>)

WellFormedTexts ==
    {AmountText(sp, neg, h, u, yu) :
        sp \in BOOLEAN, neg \in BOOLEAN, h \in WellFormedHundredths, u \in Units, yu \in BOOLEAN}

ParserInputs ==
    {Str(s) : s \in SeqsUpTo(Alphabet, MaxStrLen)} \cup {Str(s) : s \in WellFormedTexts}
        \cup {None, Num(0), Num(5)}

InitParse ==
    /\ pc = "parse"
    /\ arg \in ParserInputs
    /\ top_data = <<>>
    /\ raw_data = NoRawData
    /\ facts = NoFacts
    /\ ret = NoRet
    /\ amounts = <<>>
    /\ metrics = ZeroMetrics
    /\ OtherVarsIdle

ParseAmount ==
    /\ pc = "parse"
    /\ ret' = parse_amount_to_wan(arg)
    /\ pc' = "amount_parsed"
    /\ UNCHANGED <<top_data, raw_data, facts, arg, amounts, metrics, text, exalter, hm_list_df, seat_player_info, output_file, success>>
    /\ UNCHANGED laterVars

ParsePercentage ==
    /\ pc = "parse"
    /\ ret' = parse_percentage(arg)
    /\ pc' = "percentage_parsed"
    /\ UNCHANGED <<top_data, raw_data, facts, arg, amounts, metrics, text, exalter, hm_list_df, seat_player_info, output_file, success>>
    /\ UNCHANGED laterVars

NextParse == ParseAmount \/ ParsePercentage

SpecParse == InitParse /\ [][NextParse]_vars

(***************************************************************************)
(* calculate_concentration_metrics on its own: one call on a list of       *)
(* amounts (cw) drawn from AmountPool                                      *)
(***************************************************************************)
AmountPool == {65000, 41000, 1000, 0, -41000}

\* buy side amounts 650, 410, 50, 30, 10 wan
ScenarioAmounts == <<65000, 41000, 5000, 3000, 1000>>

InitConc ==
    /\ pc = "conc"
    /\ amounts \in SeqsUpTo(AmountPool, MaxAmounts) \cup {ScenarioAmounts}
    /\ top_data = <<>>
    /\ raw_data = NoRawData
    /\ facts = NoFacts
    /\ arg = None
    /\ ret = NoRet
    /\ metrics = ZeroMetrics
    /\ OtherVarsIdle

Concentration ==
    /\ pc = "conc"
    /\ metrics' = calculate_concentration_metrics(amounts)
    /\ pc' = "conc_done"
    /\ UNCHANGED <<top_data, raw_data, facts, arg, ret, amounts, text, exalter, hm_list_df, seat_player_info, output_file, success>>
    /\ UNCHANGED laterVars

NextConc == Concentration

SpecConc == InitConc /\ [][NextConc]_vars

(***************************************************************************)
(* _format_amount on its own, and the text it gives read back by           *)
(* parse_amount_to_wan: one call of each on an amount in yuan              *)
(***************************************************************************)
\* amounts in yuan on both sides of the 10,000,000 threshold, and NaN; none is
\* a rounding tie of the two-decimal format, where the binary float decides
FormatInputs ==
    {Num(x) : x \in {0, 40, 49, 51, 149, 251, 500, 15000, 999999, 1000000, 4561100,
                     9999949, 9999951, 9999999, 10000000, 10000001, 10499999, 10510000,
                     12345678, 14999999, 15000000, 15490000, 25000000, 65000000,
                     123456789, 150000000, 1234567890,
                     -40, -60, -500, -15000, -999999, -3000000, -9999999, -10000000,
                     -12345678, -65000000}} \cup {NaN}

InitFormat ==
    /\ pc = "format"
    /\ arg \in FormatInputs
    /\ top_data = <<>>
    /\ raw_data = NoRawData
    /\ facts = NoFacts
    /\ ret = NoRet
    /\ amounts = <<>>
    /\ metrics = ZeroMetrics
    /\ OtherVarsIdle

FormatAmount ==
    /\ pc = "format"
    /\ text' = format_amount(arg)
    /\ pc' = "formatted"
    /\ UNCHANGED <<top_data, raw_data, facts, arg, ret, amounts, metrics,
                   exalter, hm_list_df, seat_player_info, output_file, success>>
    /\ UNCHANGED laterVars

ParseFormatted ==
    /\ pc = "formatted"
    /\ ret' = parse_amount_to_wan(Str(text))
    /\ pc' = "round_trip"
    /\ UNCHANGED <<top_data, raw_data, facts, arg, amounts, metrics,
                   text, exalter, hm_list_df, seat_player_info, output_file, success>>
    /\ UNCHANGED laterVars

NextFormat == FormatAmount \/ ParseFormatted

SpecFormat == InitFormat /\ [][NextFormat]_vars

(***************************************************************************)
(* _identify_player on its own: one call on a seat name and a registry     *)
(***************************************************************************)
SeatNameAlphabet == {"a", "b", "J", "Z"}

RegistryRow(nm, d, o) == [name |-> nm, desc |-> d, orgs |-> o]

\* rows of hm_list: a trader with a style profile, a row whose orgs text is not
\* JSON, a row without orgs, the institution-only label, a quant desk, and a
\* trader whose name only contains a quant label and whose description says quant
RegistryRowPool ==
    { RegistryRow("zhaolaoge", "d1", OrgList(<< <<"a", "b">> >>)),
      RegistryRow("broken", "d2", OrgMalformed),
      RegistryRow("noorgs", "d3", OrgNaN),
      RegistryRow(InstitutionOnly, "d4", OrgList(<< InstitutionMarker >>)),
      RegistryRow("lianghuadaban", "d5", OrgList(<< <<"b">>, <<"J">> >>)),
      RegistryRow("lianghuadaban2", Quant, OrgList(<< <<"a">> >>)) }

InitIdent ==
    /\ pc = "ident"
    /\ exalter \in SeqsUpTo(SeatNameAlphabet, MaxSeatNameLen)
    /\ hm_list_df \in SeqsUpTo(RegistryRowPool, MaxRegistry)
    /\ seat_player_info = DefaultPlayerInfo(<<>>)
    /\ ThreadsIdle /\ BatchIdle /\ StagesIdle /\ RetryIdle /\ ChatIdle /\ BotIdle
    /\ top_data = <<>>
    /\ raw_data = NoRawData
    /\ facts = NoFacts
    /\ arg = None
    /\ ret = NoRet
    /\ amounts = <<>>
    /\ metrics = ZeroMetrics
    /\ text = <<>>
    /\ output_file = NoFile
    /\ success = FALSE

IdentifyPlayer ==
    /\ pc = "ident"
    /\ seat_player_info' = identify_player(exalter, hm_list_df)
    /\ pc' = "identified"
    /\ UNCHANGED <<top_data, raw_data, facts, arg, ret, amounts, metrics,
                   text, exalter, hm_list_df, output_file, success>>
    /\ UNCHANGED laterVars

NextIdent == IdentifyPlayer

SpecIdent == InitIdent /\ [][NextIdent]_vars

(***************************************************************************)
(* Properties                                                              *)
(***************************************************************************)
SeatData == raw_data.stocks[1].seat_data

\* the net amount of a seat or player entry as its text reads, in cw
NetOf(entry) == Hundredths(parse_amount_to_wan(entry.net_amount))

IsTargetRow(row) == row.ts_code = TargetTsCode

StockRows == SelectSeq(top_data, IsTargetRow)

DedupRows == drop_duplicates(StockRows)

CountIn(seq, v) == Cardinality({i \in 1..Len(seq) : seq[i] = v})

FactsBuilt == pc \in {"built", "built_from_file"} /\ ~facts.raised /\ ~facts.empty

\* the seats of a side as the players list shows them
Shown(entries) == [i \in 1..Len(entries) |-> <<entries[i].seat_name, entries[i].net_amount>>]

\* the net amount of the entry is a text that reads as a number
HasNumericNet(entry) ==
    /\ entry.net_amount.kind = "str"
    /\ ParseFloat(Remove(Remove(CleanAmountStr(entry.net_amount.s), "Y"), "W")).ok

\* C1 as stated: every seat among the long players has a strictly positive net
\* amount and every seat among the short players a net amount that is not
\* positive, whatever the buy_seats / sell_seats split of the input says
C1_SideBySign ==
    FactsBuilt =>
        /\ \A i \in 1..Len(facts.long_side_facts.players) :
              HasNumericNet(facts.long_side_facts.players[i])
                  => NetOf(facts.long_side_facts.players[i]) > 0
        /\ \A i \in 1..Len(facts.short_side_facts.players) :
              HasNumericNet(facts.short_side_facts.players[i])
                  => NetOf(facts.short_side_facts.players[i]) <= 0

\* C1 amended: the long players are the seats of seat_data.buy_seats and the
\* short players the seats of seat_data.sell_seats, one entry per seat in input
\* order, whatever the sign of their net amount
C1_SideByInputList ==
    FactsBuilt =>
        /\ Shown(facts.long_side_facts.players) = Shown(SeatData.buy_seats)
        /\ Shown(facts.short_side_facts.players) = Shown(SeatData.sell_seats)

\* C1 witness: a negative-net seat listed under buy_seats is a long player and
\* a positive-net seat listed under sell_seats is a short player
C1_Witness ==
    /\ FactsBuilt
    /\ \E i \in 1..Len(facts.long_side_facts.players) :
          NetOf(facts.long_side_facts.players[i]) < 0
    /\ \E i \in 1..Len(facts.short_side_facts.players) :
          NetOf(facts.short_side_facts.players[i]) > 0

NetNonIncreasing(seats) ==
    \A i \in 1..Len(seats), j \in 1..Len(seats) : i < j => NetOf(seats[i]) >= NetOf(seats[j])

NetNonDecreasing(seats) ==
    \A i \in 1..Len(seats), j \in 1..Len(seats) : i < j => NetOf(seats[i]) <= NetOf(seats[j])

\* C2 as stated: after _process_seat_data, buy_seats is in descending order of
\* net amount and sell_seats in ascending order (most negative first)
C2_SellAscending ==
    pc = "processed" => NetNonIncreasing(SeatData.buy_seats) /\ NetNonDecreasing(SeatData.sell_seats)

\* C2 amended: after _process_seat_data, buy_seats and sell_seats are both in
\* descending order of net amount, so sell_seats lists the most negative last
C2_BothDescending ==
    pc = "processed" => NetNonIncreasing(SeatData.buy_seats) /\ NetNonIncreasing(SeatData.sell_seats)

\* C2 witness: two sell seats of different net amounts, the less negative first,
\* next to a buy seat
C2_Witness ==
    /\ pc = "processed"
    /\ Len(SeatData.buy_seats) >= 1
    /\ Len(SeatData.sell_seats) >= 2
    /\ NetOf(SeatData.sell_seats[1]) > NetOf(SeatData.sell_seats[2])

\* C3: every deduplicated row yields one seat entry, in buy_seats if and only if
\* its net amount is strictly positive and in sell_seats otherwise (zero
\* included); nothing is dropped and nothing is entered twice
C3_PartitionBySign ==
    pc = "processed" =>
        /\ Len(SeatData.buy_seats) + Len(SeatData.sell_seats) = Len(DedupRows)
        /\ \A i \in 1..Len(DedupRows) :
              LET v == SeatInfo(DedupRows[i], HmList)
                  same == {j \in 1..Len(DedupRows) : SeatInfo(DedupRows[j], HmList) = v}
              IN  /\ CountIn(SeatData.buy_seats, v)
                        = Cardinality({j \in same : DedupRows[j].net_buy > 0})
                  /\ CountIn(SeatData.sell_seats, v)
                        = Cardinality({j \in same : DedupRows[j].net_buy <= 0})

\* C3 witness: a row of net amount zero went to sell_seats next to a buy seat
C3_Witness ==
    /\ pc = "processed"
    /\ \E i \in 1..Len(DedupRows) : DedupRows[i].net_buy = 0
    /\ Len(SeatData.buy_seats) >= 1
    /\ \E i \in 1..Len(SeatData.sell_seats) : NetOf(SeatData.sell_seats[i]) = 0

DistinctTuples ==
    {<<StockRows[i].exalter, StockRows[i].buy, StockRows[i].sell, StockRows[i].net_buy,
       StockRows[i].buy_rate, StockRows[i].sell_rate>> : i \in 1..Len(StockRows)}

\* C4: the seat entries over both sides are as many as the distinct (seat name,
\* buy, sell, net, buy_rate, sell_rate) tuples of the stock's rows, the built
\* facts list as many players, and the dedup of a deduplicated row set is that
\* row set
C4_DedupCount ==
    /\ pc = "processed" =>
          /\ Len(SeatData.buy_seats) + Len(SeatData.sell_seats) = Cardinality(DistinctTuples)
          /\ drop_duplicates(DedupRows) = DedupRows
    /\ pc = "built" =>
          /\ ~facts.raised /\ ~facts.empty
          /\ facts.long_side_facts.player_count + facts.short_side_facts.player_count
                = Cardinality(DistinctTuples)

\* C4 witness: three rows of one seat name, two of them differing in the listing
\* reason only and the third in its amounts, gave two entries
C4_Witness ==
    /\ pc = "processed"
    /\ Len(StockRows) = 3
    /\ \A i \in 1..3 : StockRows[i].exalter = StockRows[1].exalter
    /\ \E i \in 1..3, j \in 1..3 :
          i # j /\ StockRows[i] # StockRows[j] /\ DedupKey(StockRows[i]) = DedupKey(StockRows[j])
    /\ Len(SeatData.buy_seats) + Len(SeatData.sell_seats) = 2

Metrics3(a, b, c) == [top1_pct |-> a, top2_pct |-> b, top5_pct |-> c]

MetricsOrdered(m) ==
    /\ 0 <= m.top1_pct
    /\ m.top1_pct <= m.top2_pct
    /\ m.top2_pct <= m.top5_pct
    /\ m.top5_pct <= 1000

\* C5 as stated: for every non-empty list of amounts the percentages satisfy
\* 0 <= top1_pct <= top2_pct <= top5_pct <= 100.0
C5_OrderedForAnyList ==
    pc = "conc_done" /\ amounts # <<>> => MetricsOrdered(metrics)

\* C5 amended: for every non-empty list of amounts none of which is negative the
\* percentages satisfy 0 <= top1_pct <= top2_pct <= top5_pct <= 100.0
C5_OrderedForNonNegativeList ==
    pc = "conc_done" /\ amounts # <<>> /\ (\A i \in 1..Len(amounts) : amounts[i] >= 0)
        => MetricsOrdered(metrics)

\* C5 witness: six non-negative amounts with 0 < top1 < top2 < top5 < 100
C5_Witness ==
    /\ pc = "conc_done"
    /\ Len(amounts) = 6
    /\ \A i \in 1..Len(amounts) : amounts[i] >= 0
    /\ 0 < metrics.top1_pct
    /\ metrics.top1_pct < metrics.top2_pct
    /\ metrics.top2_pct < metrics.top5_pct
    /\ metrics.top5_pct < 1000

\* the sum of the k largest elements of s, by repeated selection of a maximum
RECURSIVE LargestSum(_, _)
LargestSum(s, k) ==
    IF k = 0 \/ s = <<>> THEN 0
    ELSE LET i == CHOOSE i \in 1..Len(s) : \A j \in 1..Len(s) : s[i] >= s[j]
         IN  s[i] + LargestSum(SubSeq(s, 1, i - 1) \o SubSeq(s, i + 1, Len(s)), k - 1)

ReferenceMetrics(amts) ==
    IF amts = <<>> \/ SumSeq(amts) = 0 THEN Metrics3(0, 0, 0)
    ELSE Metrics3(Pct1(LargestSum(amts, 1), SumSeq(amts)),
                  Pct1(LargestSum(amts, Min(2, Len(amts))), SumSeq(amts)),
                  Pct1(LargestSum(amts, Min(5, Len(amts))), SumSeq(amts)))

\* C6: the metrics equal the reference definition for every list: all 0.0 for an
\* empty list or a zero sum, else the shares of the largest 1, min(2,n) and
\* min(5,n) amounts rounded to one decimal; 650, 410, 50, 30, 10 give 56.5, 92.2
\* and 100.0, and at most five positive amounts give top5 = 100.0
C6_MatchesReference ==
    pc = "conc_done" =>
        /\ metrics = ReferenceMetrics(amounts)
        /\ amounts = ScenarioAmounts => metrics = Metrics3(565, 922, 1000)
        /\ (amounts # <<>> /\ Len(amounts) <= 5 /\ \A i \in 1..Len(amounts) : amounts[i] > 0)
              => metrics.top5_pct = 1000

\* C6 witness: the metrics of 650, 410, 50, 30, 10 are 56.5, 92.2, 100.0
C6_Witness ==
    /\ pc = "conc_done"
    /\ amounts = ScenarioAmounts
    /\ metrics = Metrics3(565, 922, 1000)

LongTotal == facts.long_side_facts.total_amount_wan

ShortTotal == facts.short_side_facts.total_amount_wan

\* C7: the winner is the tie label if and only if long total minus short total
\* is exactly 0, the long side if it is positive and the short side if it is
\* negative, and the reported net_advantage_wan has the matching sign
C7_WinnerBySign ==
    FactsBuilt =>
        LET adv == LongTotal - ShortTotal
            b == facts.battle_facts
        IN  /\ (b.winner = Tie) <=> (adv = 0)
            /\ adv > 0 => b.winner = LongWins /\ b.net_advantage_wan > 0
            /\ adv < 0 => b.winner = ShortWins /\ b.net_advantage_wan < 0
            /\ adv = 0 => b.net_advantage_wan = 0

\* C7 witness: equal non-zero totals on both sides give a tie
C7_Witness ==
    /\ FactsBuilt
    /\ LongTotal > 0
    /\ LongTotal = ShortTotal
    /\ facts.battle_facts.winner = Tie

PctBounds ==
    /\ LongTotal = ShortTotal =>
          facts.battle_facts.winner = Tie /\ facts.battle_facts.net_advantage_pct = 0
    /\ (LongTotal >= 0 /\ ShortTotal >= 0) =>
          facts.battle_facts.net_advantage_pct \in 0..1000

\* C8 as stated: net_advantage_pct is |long - short| / (long + short) * 100
\* rounded to one decimal, and 0.0 when the combined total is 0; equal totals
\* give a tie with 0.0 and non-negative totals a value in [0, 100]
C8_ZeroOnlyAtZeroTotal ==
    FactsBuilt =>
        /\ facts.battle_facts.net_advantage_pct =
              IF LongTotal + ShortTotal = 0 THEN 0
              ELSE Pct1(Abs(LongTotal - ShortTotal), LongTotal + ShortTotal)
        /\ PctBounds

\* C8 amended: net_advantage_pct is |long - short| / (long + short) * 100
\* rounded to one decimal when the combined total is positive, and 0.0 when the
\* combined total is 0 or negative; equal totals give a tie with 0.0 and
\* non-negative totals a value in [0, 100]
C8_ZeroAtNonPositiveTotal ==
    FactsBuilt =>
        /\ facts.battle_facts.net_advantage_pct =
              IF LongTotal + ShortTotal <= 0 THEN 0
              ELSE Pct1(Abs(LongTotal - ShortTotal), LongTotal + ShortTotal)
        /\ PctBounds

\* C8 witness: the short side wins by 100 percent of a positive combined total
C8_Witness ==
    /\ FactsBuilt
    /\ LongTotal = 0
    /\ ShortTotal > 0
    /\ facts.battle_facts.net_advantage_pct = 1000

ParsedAmount == pc = "amount_parsed"

\* C9: a well-formed amount text is normalised to wan: with the yi marker its
\* number times 10,000, with the wan marker or with no marker its number; the
\* yuan character, a space and the thousands separators change nothing
C9_WellFormedToWan ==
    ParsedAmount =>
        \A sp \in BOOLEAN, neg \in BOOLEAN, h \in WellFormedHundredths, u \in Units, yu \in BOOLEAN :
            arg = Str(AmountText(sp, neg, h, u, yu)) =>
                ret = Returned((IF neg THEN -h ELSE h) * (IF u = <<"Y">> THEN 10000 ELSE 1), 2)

\* C9 witness: the text 0.65 yi yuan was parsed to 6500.00 wan
C9_Witness ==
    /\ ParsedAmount
    /\ arg = Str(<<"0", ".", "6", "5", "Y", "y">>)
    /\ ret = Returned(650000, 2)

\* C10 as stated: neither parser raises; an empty or blank text, None, a text
\* without a number and a value that is not a text all give 0.0
C10_NeverRaises ==
    pc \in {"amount_parsed", "percentage_parsed"} =>
        /\ ~ret.raised
        /\ (arg.kind # "str" \/ \A i \in 1..Len(arg.s) : arg.s[i] \notin DigitChars)
              => ret = Returned(0, 0)

\* the unit characters and the number of a rendered amount
RenderedUnit(t) == SubSeq(t, Len(t) - 1, Len(t))

RenderedNumber(t) == ParseFloat(Remove(SubSeq(t, 1, Len(t) - 2), ","))

Formatted == pc \in {"formatted", "round_trip"}

\* C11: _format_amount renders zero and NaN as 0.00 wan yuan; a value below
\* 10,000,000 as value / 10,000 with two decimals and the unit wan yuan; any
\* other value as value / 100,000,000 with two decimals and the unit yi yuan;
\* so the unit is yi yuan exactly for the values of 10,000,000 or more
C11_FormatAmount ==
    Formatted =>
        IF arg.kind = "nan" \/ arg.n = 0 THEN text = <<"0", ".", "0", "0", "W", "y">>
        ELSE LET f == RenderedNumber(text)
             IN  /\ f.ok
                 /\ f.e = 2
                 /\ (RenderedUnit(text) = <<"Y", "y">>) <=> (arg.n >= 10000000)
                 /\ (RenderedUnit(text) = <<"W", "y">>) <=> (arg.n < 10000000)
                 /\ arg.n < 10000000 => Abs(100 * f.m - arg.n) <= 50
                 /\ arg.n >= 10000000 => Abs(1000000 * f.m - arg.n) <= 500000

\* C11 witness: 65,000,000 yuan was rendered as 0.65 yi yuan
C11_Witness ==
    /\ pc = "formatted"
    /\ arg = Num(65000000)
    /\ text = <<"0", ".", "6", "5", "Y", "y">>

\* the amount read back from the rendered text, in yuan
ReadBackYuan == 100 * Hundredths(ret)

\* C12 as stated: for every amount x of the wan and of the yi range,
\* parse_amount_to_wan(_format_amount(x)) recovers x within one cent (0.01 of
\* the wan unit the parser returns, 100 yuan)
C12_WithinOneCent ==
    (pc = "round_trip" /\ arg.kind = "num") =>
        /\ ~ret.raised
        /\ Abs(ReadBackYuan - arg.n) <= 100

\* C12 amended: parse_amount_to_wan(_format_amount(x)) recovers x within half
\* of 0.01 of the unit the text was rendered in: within 50 yuan for x below
\* 10,000,000 and within 500,000 yuan for x of 10,000,000 or more; 500 and
\* 15000 come back exactly and 999999 comes back as 1,000,000
C12_WithinHalfRenderedCent ==
    (pc = "round_trip" /\ arg.kind = "num") =>
        /\ ~ret.raised
        /\ arg.n < 10000000 => Abs(ReadBackYuan - arg.n) <= 50
        /\ arg.n >= 10000000 => Abs(ReadBackYuan - arg.n) <= 500000
        /\ arg.n \in {500, 15000} => ReadBackYuan = arg.n
        /\ arg.n = 999999 => ReadBackYuan = 1000000

\* C12 witness: 12,345,678 yuan was rendered as 0.12 yi yuan and read back as
\* 1200 wan
C12_Witness ==
    /\ pc = "round_trip"
    /\ arg = Num(12345678)
    /\ text = <<"0", ".", "1", "2", "Y", "y">>
    /\ ret = Returned(120000, 2)

Identified == pc = "identified"

\* a occurs in b as a run of consecutive characters
OccursIn(a, b) ==
    \E i \in 0..Len(b) : i + Len(a) <= Len(b) /\ \A k \in 1..Len(a) : b[i + k] = a[k]

\* the registry entry has an alias list and an alias of it is contained in the
\* seat name or contains the seat name
EntryMatches(entry, name) ==
    /\ entry.orgs.kind = "list"
    /\ \E i \in 1..Len(entry.orgs.items) :
          OccursIn(entry.orgs.items[i], name) \/ OccursIn(name, entry.orgs.items[i])

MatchingEntries == {k \in 1..Len(hm_list_df) : EntryMatches(hm_list_df[k], exalter)}

FirstMatchingEntry == hm_list_df[CHOOSE k \in MatchingEntries : \A j \in MatchingEntries : k <= j]

HasMarker == OccursIn(<<"J", "Z">>, exalter)

CategorySet == {"putongxiwei", "jigou", "lianghua", "zhimingyouzi"}

\* C13 as stated: a seat whose name contains the institution-only marker and
\* that matches no registry entry gets the category institution, and every
\* category returned is one of ordinary seat, institution, quant and named
\* speculator
C13_MarkerGivesInstitution ==
    Identified =>
        /\ (HasMarker /\ MatchingEntries = {}) => seat_player_info.type = "jigou"
        /\ seat_player_info.type \in CategorySet

\* C14: a seat matches an entry when an alias of the entry is contained in the
\* seat name or contains it; the profile returned is that of the first matching
\* entry in registry order, whatever entries follow, and the default profile
\* when no entry matches
C14_FirstMatchWins ==
    Identified =>
        IF MatchingEntries = {}
        THEN seat_player_info.name = "putongxiwei" /\ seat_player_info.description = "zanwuxiangguanxinxi"
        ELSE /\ seat_player_info.name = FirstMatchingEntry.name
             /\ seat_player_info.description = FirstMatchingEntry.desc

\* C14 witness: two entries of different names match, the first through an
\* alias that contains the seat name, and the first one's profile is returned
C14_Witness ==
    /\ Identified
    /\ exalter = <<"a">>
    /\ Len(hm_list_df) = 3
    /\ MatchingEntries = {2, 3}
    /\ hm_list_df[2].name = "zhaolaoge"
    /\ hm_list_df[3].name = "lianghuadaban2"
    /\ seat_player_info.name = "zhaolaoge"

C16_OrdinaryDefault ==
    (Identified /\ MatchingEntries = {} /\ ~HasMarker) =>
        seat_player_info = [name |-> "putongxiwei", type |-> "putongxiwei",
                            description |-> "zanwuxiangguanxinxi", style |-> "fenggeweiming"]

\* C16 witness: a seat name with the first character of the marker only, and a
\* registry of three entries none of which matches it, gave the default profile
C16_Witness ==
    /\ Identified
    /\ exalter = <<"J", "a">>
    /\ Len(hm_list_df) = 3
    /\ MatchingEntries = {}
    /\ seat_player_info.type = "putongxiwei"

ParsableEntry(entry) == entry.orgs.kind = "list"

BuildDone == pc \in {"built", "built_from_file", "file_processed", "file_raised"}

ProcessFileDone == pc \in {"file_processed", "file_raised"}

NoStockInInput == "stocks" \notin raw_data.keys \/ raw_data.stocks = <<>>

FactsKeys == {"ts_code", "name", "raw_basic_info", "long_side_facts", "short_side_facts", "battle_facts"}

\* C18 as stated: without a stocks key or with an empty stocks list
\* build_structured_facts returns the empty result without raising and
\* process_file returns False and writes no file; for any input with at least
\* one stock the result carries ts_code, name, raw_basic_info, long_side_facts,
\* short_side_facts and battle_facts
C18_EmptyOrSixKeys ==
    BuildDone =>
        /\ NoStockInInput =>
              /\ facts = [raised |-> FALSE, empty |-> TRUE]
              /\ ProcessFileDone => (pc = "file_processed" /\ ~success /\ output_file = [written |-> FALSE])
        /\ ~NoStockInInput =>
              /\ ~facts.raised
              /\ ~facts.empty
              /\ FactsKeys \subseteq DOMAIN facts

\* C19: the facts built from a container of several stocks are the facts built
\* from its first stock alone, whatever the other entries contain
C19_FirstStockOnly ==
    (BuildDone /\ ~NoStockInInput) =>
        facts = build_structured_facts(RawData({"stocks"}, << raw_data.stocks[1] >>))

\* C19 witness: the second stock of the file has a seat the builder cannot
\* parse; the facts are those of the first stock
C19_Witness ==
    /\ pc = "built_from_file"
    /\ Len(raw_data.stocks) = 2
    /\ raw_data.stocks[2].seat_data.buy_seats[1].net_amount = Num(5)
    /\ ~facts.raised
    /\ ~facts.empty
    /\ facts.ts_code = raw_data.stocks[1].ts_code
    /\ facts.long_side_facts.player_count = Len(raw_data.stocks[1].seat_data.buy_seats)

\* C20: a call of build_structured_facts leaves its input as it was, and the
\* raw_basic_info of the facts it returns is the basic_info of the first stock,
\* field for field
C20_BasicInfoCarriedInputKept ==
    [][(pc \in {"processed", "loaded"} /\ pc' \in {"built", "built_from_file"}) =>
          /\ raw_data' = raw_data
          /\ (~facts'.raised /\ ~facts'.empty) =>
                 /\ facts'.raw_basic_info = raw_data.stocks[1].basic_info
                 /\ DOMAIN facts'.raw_basic_info = DOMAIN raw_data.stocks[1].basic_info]_vars

\* C20 witness: a basic_info without amount_rate was carried into the facts
\* without one, the turnover share of the battle facts being the default 0.0
C20_Witness ==
    /\ pc = "built_from_file"
    /\ ~facts.raised
    /\ ~facts.empty
    /\ raw_data.stocks[1].basic_info.amount_rate = Missing
    /\ facts.raw_basic_info = raw_data.stocks[1].basic_info
    /\ facts.battle_facts.on_list_turnover_pct = 0
    /\ Len(raw_data.stocks[1].seat_data.buy_seats) = 2

\* the five texts of a seat and of the player entry made of it
SeatTexts(seat) == <<seat.seat_name, seat.net_amount, seat.buy_amount, seat.sell_amount,
                     seat.buy_rate, seat.sell_rate>>

PlayerTexts(player) == <<player.seat_name, player.net_amount, player.buy, player.sell,
                         player.buy_rate, player.sell_rate>>

\* the net amount of the seat does not read as a number
Unparsable(seat) == ~HasNumericNet(seat)

\* the side lists one player per seat in input order with the seat's texts, its
\* player_count is their number, and a side whose seats are all unparsable has
\* total 0.0 and concentration 0.0
SideKeepsSeats(side, seats) ==
    /\ Len(side.players) = Len(seats)
    /\ side.player_count = Len(side.players)
    /\ \A i \in 1..Len(seats) : PlayerTexts(side.players[i]) = SeatTexts(seats[i])
    /\ (\A i \in 1..Len(seats) : Unparsable(seats[i])) =>
          /\ side.total_amount_wan = 0
          /\ side.concentration_metrics = Metrics3(0, 0, 0)
          /\ \A t \in DOMAIN side.contribution_by_type : side.contribution_by_type[t] = 0

\* C21 as stated: each side has one player entry per input seat, in input order,
\* with the seat's amount and rate texts; a seat whose net amount cannot be
\* parsed adds 0.0 to the aggregates and is still listed with its raw value;
\* player_count is the number of players
C21_OnePlayerPerSeat ==
    (pc \in {"built", "built_from_file"} /\ ~NoStockInInput) =>
        /\ ~facts.raised
        /\ SideKeepsSeats(facts.long_side_facts, SeatData.buy_seats)
        /\ SideKeepsSeats(facts.short_side_facts, SeatData.sell_seats)

\* the amount a side counts for a seat, in cw: the net amount as its text
\* reads on the buy side, its absolute value on the sell side
CountedAmount(seat, on_buy_side) == IF on_buy_side THEN NetOf(seat) ELSE Abs(NetOf(seat))

CategorySum(seats, t, on_buy_side) ==
    SumSeq([i \in 1..Len(seats) |->
               IF seats[i].player_info.type = t THEN CountedAmount(seats[i], on_buy_side) ELSE 0])

ContributionSum(side) ==
    LET types == DOMAIN side.contribution_by_type
        RECURSIVE Add(_)
        Add(S) == IF S = {} THEN 0
                  ELSE LET t == CHOOSE t \in S : TRUE
                       IN  side.contribution_by_type[t] + Add(S \ {t})
    IN  IF side.players = <<>> THEN 0 ELSE Add(types)

SeatCategories(seats) == {seats[i].player_info.type : i \in 1..Len(seats)}

\* C22 as stated: on both sides the contribution of a category is the sum of the
\* absolute net amounts of the side's seats of that category (to one decimal),
\* so every contribution is non-negative and the contributions add up to
\* total_amount_wan
AbsContributions(side, seats) ==
    seats # <<>> =>
        /\ DOMAIN side.contribution_by_type = SeatCategories(seats)
        /\ \A t \in SeatCategories(seats) :
              /\ side.contribution_by_type[t] = Round1(CategorySum(seats, t, FALSE))
              /\ side.contribution_by_type[t] >= 0
        /\ ContributionSum(side) = side.total_amount_wan

CountedContributions(side, seats, on_buy_side) ==
    seats # <<>> =>
        /\ DOMAIN side.contribution_by_type = SeatCategories(seats)
        /\ \A t \in SeatCategories(seats) :
              /\ side.contribution_by_type[t] = Round1(CategorySum(seats, t, on_buy_side))
              /\ (\A i \in 1..Len(seats) : CountedAmount(seats[i], on_buy_side) >= 0)
                    => side.contribution_by_type[t] >= 0
        /\ side.total_amount_wan =
              Round1(SumSeq([i \in 1..Len(seats) |-> CountedAmount(seats[i], on_buy_side)]))
        /\ Abs(ContributionSum(side) - side.total_amount_wan)
              <= 5 * (Cardinality(SeatCategories(seats)) + 1)

BothMarkers(s) == (\E i \in 1..Len(s) : s[i] = "Y") /\ (\E i \in 1..Len(s) : s[i] = "W")

\* C26: parse_amount_to_wan returns 0.0 for every text that holds the yi marker
\* and the wan marker, in either order
C26_BothMarkersGiveZero ==
    (ParsedAmount /\ arg.kind = "str" /\ BothMarkers(arg.s)) =>
        /\ ~ret.raised
        /\ ret.m = 0

\* C26 witness: the texts 1 yi wan and 1 wan yi were parsed to 0.0
C26_Witness ==
    /\ ParsedAmount
    /\ arg \in {Str(<<"1", "Y", "W">>), Str(<<"1", "W", "Y">>)}
    /\ ret = Returned(0, 0)

(***************************************************************************)
(* Concurrent calls of the core: each thread of a pool runs one call of    *)
(* _identify_player or build_structured_facts for its own stock; the       *)
(* registry hm_list_df and the table player_profiles are shared, the       *)
(* locals of a call live in its own frame.  A step is one loop iteration   *)
(* or one statement group, so the calls interleave between rows and        *)
(* between the analyses of the two sides.                                  *)
(***************************************************************************)
ThreadCount == 2

Threads == 1..ThreadCount

\* mutant: the locals are kept in one place for all calls
LocalFrameShared(t) == 1

\* the frame that holds the locals of the call of thread t: its own
LocalFrame(t) == t

\* self.player_profiles read with the table given (lines 504-521)
ProfileStyle(profiles, player_name) ==
    IF player_name \in DOMAIN profiles /\ profiles[player_name] # ""
    THEN profiles[player_name]
    ELSE StyleNoDetail

\* lines 437-442 with the shared table read at the time of the match
RowPlayerInfo(hm_row, profiles) ==
    [name |-> hm_row.name,
     type |-> determine_player_type(hm_row.name, hm_row.desc),
     description |-> hm_row.desc,
     style |-> ProfileStyle(profiles, hm_row.name)]

EmptyFrame ==
    [k |-> 0, player_info |-> DefaultPlayerInfo(<<>>), stock_data |-> None,
     long_side_facts |-> EmptySide, short_side_facts |-> EmptySide]

IdentifyCall(seat_name) ==
    [kind |-> "identify", seat_name |-> seat_name, raw |-> NoRawData,
     pc |-> "called", result |-> None, overlapped |-> FALSE]

BuildCall(raw) ==
    [kind |-> "build", seat_name |-> <<>>, raw |-> raw,
     pc |-> "called", result |-> None, overlapped |-> FALSE]

ThreadSeatNames == { <<"a", "b">>, <<"J", "Z">>, <<"b">> }

ThreadStock(buy, sell) ==
    RawData({"meta", "stocks"},
            << StockInfo(TargetTsCode, "n1", Str(<<"4", ".", "4", "6", "%">>),
                         [buy_seats |-> buy, sell_seats |-> sell]) >>)

\* the inputs of the build calls: a stock with a seat on each side, a stock
\* whose sell seat has a null net_amount, and a file without stocks
ThreadStockInputs ==
    { ThreadStock(<< PlainSeat(<<"J", "Z">>, Str(<<"5", ".", "0", "4", "W", "y">>)) >>,
                  << PlainSeat(<<"x">>, Str(<<"-", "3", ".", "0", "4", "W", "y">>)) >>),
      ThreadStock(<<>>, << PlainSeat(<<"x">>, None) >>),
      RawData({"meta"}, <<>>) }

CallPool == {IdentifyCall(n) : n \in ThreadSeatNames} \cup {BuildCall(r) : r \in ThreadStockInputs}

\* the registry loaded once before the pool starts
ThreadRegistries == {HmList, Tail(HmList)}

InitThreads ==
    /\ pc = "pool"
    /\ hm_list_df \in ThreadRegistries
    /\ player_profiles = PlayerProfiles
    /\ calls \in [Threads -> CallPool]
    /\ frames = [t \in Threads |-> EmptyFrame]
    /\ exalter = <<>>
    /\ seat_player_info = DefaultPlayerInfo(<<>>)
    /\ top_data = <<>>
    /\ raw_data = NoRawData
    /\ facts = NoFacts
    /\ arg = None
    /\ ret = NoRet
    /\ amounts = <<>>
    /\ metrics = ZeroMetrics
    /\ text = <<>>
    /\ output_file = NoFile
    /\ success = FALSE
    /\ BatchIdle /\ StagesIdle /\ RetryIdle /\ ChatIdle /\ BotIdle

\* another call is between its first and its last step
OthersRunning(t) == \E u \in Threads \ {t} : calls[u].pc \notin {"called", "done"}

\* the call of thread t moves to position p, with its result when it returns
Moved(t, p, result) ==
    [calls EXCEPT ![t].pc = p, ![t].result = result,
                  ![t].overlapped = @ \/ OthersRunning(t)]

ThreadRest ==
    UNCHANGED <<pc, top_data, raw_data, facts, arg, ret, amounts, metrics, text, exalter,
                hm_list_df, seat_player_info, output_file, success, player_profiles,
                batchVars, stageVars, retryVars, chatVars, botVars>>

\* lines 418-424: the default player_info of the call
IdentifyEnter(t) ==
    /\ calls[t].kind = "identify" /\ calls[t].pc = "called"
    /\ frames' = [frames EXCEPT ![LocalFrame(t)].k = 1,
                                ![LocalFrame(t)].player_info = DefaultPlayerInfo(calls[t].seat_name)]
    /\ calls' = Moved(t, "loop", None)
    /\ ThreadRest

\* lines 427-450: one iteration of the loop over the shared registry
IdentifyRow(t) ==
    LET f == frames[LocalFrame(t)]
    IN  /\ calls[t].kind = "identify" /\ calls[t].pc = "loop"
        /\ f.k >= 1 /\ f.k <= Len(hm_list_df)
        /\ LET hm_row == hm_list_df[f.k]
               found == IF RowMatches(hm_row, calls[t].seat_name)
                        THEN RowPlayerInfo(hm_row, player_profiles) ELSE f.player_info
           IN  IF hm_row.orgs.kind # "list"
               THEN /\ frames' = [frames EXCEPT ![LocalFrame(t)].k = f.k + 1]
                    /\ calls' = Moved(t, "loop", None)
               ELSE IF found.type \notin {OrdinarySeat, InstitutionOnly}
               THEN /\ frames' = [frames EXCEPT ![LocalFrame(t)].player_info = found]
                    /\ calls' = Moved(t, "return", None)
               ELSE /\ frames' = [frames EXCEPT ![LocalFrame(t)].player_info = found,
                                                ![LocalFrame(t)].k = f.k + 1]
                    /\ calls' = Moved(t, "loop", None)
        /\ ThreadRest

\* line 452: return player_info
IdentifyReturn(t) ==
    LET f == frames[LocalFrame(t)]
    IN  /\ calls[t].kind = "identify"
        /\ \/ calls[t].pc = "return"
           \/ calls[t].pc = "loop" /\ (f.k < 1 \/ f.k > Len(hm_list_df))
        /\ calls' = Moved(t, "done", f.player_info)
        /\ UNCHANGED frames
        /\ ThreadRest

\* lines 251-260: the stocks list and its first stock
BuildEnter(t) ==
    /\ calls[t].kind = "build" /\ calls[t].pc = "called"
    /\ IF Stocks(calls[t].raw) = <<>>
       THEN /\ calls' = Moved(t, "done", NoFacts)
            /\ UNCHANGED frames
       ELSE /\ frames' = [frames EXCEPT ![LocalFrame(t)].stock_data = Stocks(calls[t].raw)[1]]
            /\ calls' = Moved(t, "long", None)
    /\ ThreadRest

\* lines 265-266: analyze_side_data of the buy seats
BuildLong(t) ==
    LET f == frames[LocalFrame(t)]
    IN  /\ calls[t].kind = "build" /\ calls[t].pc = "long"
        /\ f.stock_data # None
        /\ LET long_side_facts == analyze_side_data(f.stock_data.seat_data.buy_seats, "buy")
           IN  IF long_side_facts.raised
               THEN /\ calls' = Moved(t, "done", [raised |-> TRUE, empty |-> FALSE])
                    /\ UNCHANGED frames
               ELSE /\ frames' = [frames EXCEPT ![LocalFrame(t)].long_side_facts = long_side_facts]
                    /\ calls' = Moved(t, "short", None)
        /\ ThreadRest

\* lines 269-270: analyze_side_data of the sell seats
BuildShort(t) ==
    LET f == frames[LocalFrame(t)]
    IN  /\ calls[t].kind = "build" /\ calls[t].pc = "short"
        /\ f.stock_data # None
        /\ LET short_side_facts == analyze_side_data(f.stock_data.seat_data.sell_seats, "sell")
           IN  IF short_side_facts.raised
               THEN /\ calls' = Moved(t, "done", [raised |-> TRUE, empty |-> FALSE])
                    /\ UNCHANGED frames
               ELSE /\ frames' = [frames EXCEPT ![LocalFrame(t)].short_side_facts = short_side_facts]
                    /\ calls' = Moved(t, "battle", None)
        /\ ThreadRest

\* lines 273-291: the battle metrics and the assembled result
BuildBattle(t) ==
    LET f == frames[LocalFrame(t)]
        battle_facts == calculate_battle_metrics(f.long_side_facts, f.short_side_facts,
                                                 f.stock_data.basic_info)
    IN  /\ calls[t].kind = "build" /\ calls[t].pc = "battle"
        /\ f.stock_data # None
        /\ calls' = Moved(t, "done",
                          IF battle_facts.raised THEN [raised |-> TRUE, empty |-> FALSE]
                          ELSE [raised |-> FALSE, empty |-> FALSE,
                                ts_code |-> f.stock_data.ts_code,
                                name |-> f.stock_data.name,
                                raw_basic_info |-> f.stock_data.basic_info,
                                long_side_facts |-> f.long_side_facts,
                                short_side_facts |-> f.short_side_facts,
                                battle_facts |-> battle_facts])
        /\ UNCHANGED frames
        /\ ThreadRest

NextThreads ==
    \E t \in Threads :
        \/ IdentifyEnter(t) \/ IdentifyRow(t) \/ IdentifyReturn(t)
        \/ BuildEnter(t) \/ BuildLong(t) \/ BuildShort(t) \/ BuildBattle(t)

SpecThreads == InitThreads /\ [][NextThreads]_vars

\* what the call returns when it runs alone
AloneResult(call) ==
    IF call.kind = "identify" THEN identify_player(call.seat_name, hm_list_df)
    ELSE build_structured_facts(call.raw)

\* C23: whatever the interleaving of the concurrent _identify_player and
\* build_structured_facts calls, every call that has returned returned what it
\* returns when run alone, and no step of any call changes the shared registry
\* or the style-profile table
C23_CallsIndependent ==
    /\ [](\A t \in Threads : calls # <<>> /\ calls[t].pc = "done"
                               => calls[t].result = AloneResult(calls[t]))
    /\ [][hm_list_df' = hm_list_df /\ player_profiles' = player_profiles]_vars

\* C23 witness: an identification that matched a registry row and a build that
\* produced facts have both returned, each having taken steps while the other
\* was under way
C23_Witness ==
    /\ pc = "pool"
    /\ calls[1].kind = "identify" /\ calls[2].kind = "build"
    /\ calls[1].pc = "done" /\ calls[2].pc = "done"
    /\ calls[1].overlapped /\ calls[2].overlapped
    /\ calls[1].result.type \notin {OrdinarySeat, InstitutionOnly}
    /\ ~calls[2].result.raised /\ ~calls[2].result.empty

(***************************************************************************)
(* DragonTigerPipeline.process_date: step 1 loads the stocks of the date,  *)
(* step 2 analyses each stock (serial loop, or one task per stock in a     *)
(* thread pool collected with as_completed), step 4 writes the summary.    *)
(* Post generation is off (enable_post_generation = False, the default).   *)
(* What happens to a stock is its fate: an analysis file already exists,   *)
(* the analyser returns a report, the extraction or the analyser returns   *)
(* None, or an exception is raised while the stock is processed.           *)
(***************************************************************************)
MaxStocks == 3

MaxWorkers == 2

Fates == {"existing", "report", "none", "raise"}

DateStock(i, fate) == [name |-> i, fate |-> fate]

\* the stock lists of a date: stocks 1..n, each with its fate
DateStockLists ==
    UNION {[1..n -> Fates] : n \in 0..MaxStocks}

\* the dict returned by analyze_complete_report, or loaded from the analysis file
AnalysisResult(stock) == [stock_info |-> stock.name, analysis_report |-> TRUE]

\* lines 304-351 (lines 207-240 in the serial loop): what processing one stock
\* yields; every exception is caught and gives None
StockResult(stock) ==
    IF stock.fate \in {"existing", "report"} THEN AnalysisResult(stock) ELSE None

\* mutant: a result is appended by the worker and by the collector
WithResultTwice(results, result) ==
    IF result # None THEN Append(Append(results, result), result) ELSE results

\* lines 275-277 (229-234): "if result: analysis_results.append(result)"
WithResult(results, result) ==
    IF result # None THEN Append(results, result) ELSE results

HasReport(result) == result # None /\ result.analysis_report

\* lines 626-663: the counts and the stock list of the summary
step4_generate_summary(results) ==
    [written |-> TRUE,
     total_stocks |-> Len(results),
     successful_analysis |-> Len(SelectSeq(results, HasReport)),
     stock_list |-> [i \in 1..Len(results) |->
                        [name |-> results[i].stock_info,
                         analysis_status |-> IF HasReport(results[i]) THEN "success"
                                             ELSE "failed"]]]

NoSummary == [written |-> FALSE]

InitBatch ==
    /\ pc = "step1"
    /\ mode \in {"serial", "parallel"}
    /\ \E fates \in DateStockLists :
          date_stocks = [i \in DOMAIN fates |-> DateStock(i, fates[i])]
    /\ task_state = <<>>
    /\ analysis_results = <<>>
    /\ summary = NoSummary
    /\ top_data = <<>>
    /\ raw_data = NoRawData
    /\ facts = NoFacts
    /\ arg = None
    /\ ret = NoRet
    /\ amounts = <<>>
    /\ metrics = ZeroMetrics
    /\ text = <<>>
    /\ exalter = <<>>
    /\ hm_list_df = <<>>
    /\ seat_player_info = DefaultPlayerInfo(<<>>)
    /\ output_file = NoFile
    /\ success = FALSE
    /\ ThreadsIdle /\ StagesIdle /\ RetryIdle /\ ChatIdle /\ BotIdle

BatchRest ==
    UNCHANGED <<top_data, raw_data, facts, arg, ret, amounts, metrics, text, exalter,
                hm_list_df, seat_player_info, output_file, success, mode, date_stocks,
                threadVars, stageVars, retryVars, chatVars, botVars>>

\* lines 127-129: step 1 returns the processed data or None
Step1FetchAndProcess ==
    /\ pc = "step1"
    /\ \E fetched \in BOOLEAN :
          IF fetched
          THEN /\ pc' = "step2"
               /\ task_state' = [i \in 1..Len(date_stocks) |-> "pending"]
          ELSE /\ pc' = "error"
               /\ UNCHANGED task_state
    /\ UNCHANGED <<analysis_results, summary>>
    /\ BatchRest

\* lines 201-242: one iteration of the serial loop, on the next stock
SerialStock ==
    /\ pc = "step2" /\ mode = "serial"
    /\ \E i \in 1..Len(date_stocks) :
          /\ task_state[i] = "pending"
          /\ \A j \in 1..(i - 1) : task_state[j] = "done"
          /\ analysis_results' = WithResult(analysis_results, StockResult(date_stocks[i]))
          /\ task_state' = [task_state EXCEPT ![i] = "done"]
    /\ UNCHANGED <<pc, summary>>
    /\ BatchRest

\* lines 259-267: one task per stock is submitted to the pool
SubmitTasks ==
    /\ pc = "step2" /\ mode = "parallel"
    /\ pc' = "pool"
    /\ task_state' = [i \in 1..Len(date_stocks) |-> "submitted"]
    /\ UNCHANGED <<analysis_results, summary>>
    /\ BatchRest

Running == {i \in 1..Len(task_state) : task_state[i] = "running"}

\* a free worker of the pool takes a submitted task
WorkerStart(i) ==
    /\ pc = "pool"
    /\ task_state[i] = "submitted"
    /\ Cardinality(Running) < MaxWorkers
    /\ task_state' = [task_state EXCEPT ![i] = "running"]
    /\ UNCHANGED <<pc, analysis_results, summary>>
    /\ BatchRest

\* lines 288-351: _analyze_single_stock_worker returns its result or None
WorkerFinish(i) ==
    /\ pc = "pool"
    /\ task_state[i] = "running"
    /\ task_state' = [task_state EXCEPT ![i] =
                         IF StockResult(date_stocks[i]) # None THEN "returned" ELSE "returned_none"]
    /\ UNCHANGED <<pc, analysis_results, summary>>
    /\ BatchRest

\* lines 271-283: as_completed yields a finished future and its result is kept
CollectResult(i) ==
    /\ pc = "pool"
    /\ task_state[i] \in {"returned", "returned_none"}
    /\ analysis_results' = WithResult(analysis_results,
                                      IF task_state[i] = "returned"
                                      THEN StockResult(date_stocks[i]) ELSE None)
    /\ task_state' = [task_state EXCEPT ![i] = "collected"]
    /\ UNCHANGED <<pc, summary>>
    /\ BatchRest

\* lines 244, 286 and 147: step 2 returns and step 4 writes the summary
GenerateSummary ==
    /\ \/ pc = "step2" /\ mode = "serial"
          /\ \A i \in 1..Len(task_state) : task_state[i] = "done"
       \/ pc = "pool"
          /\ \A i \in 1..Len(task_state) : task_state[i] = "collected"
    /\ summary' = step4_generate_summary(analysis_results)
    /\ pc' = "summarised"
    /\ UNCHANGED <<task_state, analysis_results>>
    /\ BatchRest

NextBatch ==
    \/ Step1FetchAndProcess
    \/ SerialStock
    \/ SubmitTasks
    \/ \E i \in 1..MaxStocks : i <= Len(task_state) /\ WorkerStart(i)
    \/ \E i \in 1..MaxStocks : i <= Len(task_state) /\ WorkerFinish(i)
    \/ \E i \in 1..MaxStocks : i <= Len(task_state) /\ CollectResult(i)
    \/ GenerateSummary

SpecBatch == InitBatch /\ [][NextBatch]_vars

\* the loop body returns (API calls carry a timeout), the pool runs every
\* submitted task and as_completed yields every finished future
SpecBatchFair == SpecBatch /\ WF_vars(NextBatch)

\* the stocks of the date whose analysis gave a result, and the others
Succeeded(i) == date_stocks[i].fate \in {"existing", "report"}

TimesInResults(i) ==
    Len(SelectSeq(analysis_results, LAMBDA r : r.stock_info = date_stocks[i].name))

\* C24: once step 2 has begun the batch reaches the summary step whatever
\* fails for single stocks; at the summary every stock has been processed to
\* the end, each successfully analysed stock is in the result list exactly
\* once and no stock is in it twice
C24_BatchNeverHalts ==
    /\ [](pc = "summarised" =>
            /\ \A i \in 1..Len(date_stocks) :
                  /\ task_state[i] \in {"done", "collected"}
                  /\ TimesInResults(i) = IF Succeeded(i) THEN 1 ELSE 0
            /\ summary.written)
    /\ [](\A i \in 1..Len(date_stocks) : TimesInResults(i) <= 1)
    /\ (pc = "step2") ~> (pc = "summarised")

\* C24 witness: a parallel batch of three stocks reached the summary with the
\* first stock raising, the second returning None and the third analysed
C24_Witness ==
    /\ pc = "summarised" /\ mode = "parallel"
    /\ Len(date_stocks) = 3
    /\ date_stocks[1].fate = "raise" /\ date_stocks[2].fate = "none"
    /\ date_stocks[3].fate = "report"
    /\ analysis_results = << AnalysisResult(date_stocks[3]) >>

FailedInList(i) ==
    \E k \in 1..Len(summary.stock_list) :
        /\ summary.stock_list[k].name = date_stocks[i].name
        /\ summary.stock_list[k].analysis_status = "failed"

\* C25 as stated: the summary counts all stocks of the date: total_stocks is
\* the number of stocks in the processed data, successes plus failures make
\* total_stocks, and every stock whose analysis failed is in stock_list as a
\* failed item
C25_SummaryCountsAllStocks ==
    pc = "summarised" =>
        /\ summary.total_stocks = Len(date_stocks)
        /\ summary.successful_analysis
             + Cardinality({i \in 1..Len(date_stocks) : ~Succeeded(i)}) = summary.total_stocks
        /\ \A i \in 1..Len(date_stocks) : ~Succeeded(i) => FailedInList(i)

(***************************************************************************)
(* FundingBattlePipeline.run_full_pipeline: the input file is read, then   *)
(* stage 1 (FundingBattleBuilder.process_file), stage 2 (the enricher) and *)
(* stage 3 (the post generator) run, then the summary is copied.  A stage  *)
(* returns True or False or raises; stage 1 does what the builder does on  *)
(* the input, stages 2 and 3 depend on the LLM and are free.               *)
(***************************************************************************)
MaxStageSeats == 1

\* the raw files given to the pipeline
StageInputs ==
    {NoRawData, RawData({"meta"}, <<>>), RawData({"meta", "stocks"}, <<>>)} \cup
    {ThreadStock(b, s) : b \in SeqsUpTo(FileSeatPool, MaxStageSeats),
                         s \in SeqsUpTo(FileSeatPool, MaxStageSeats)}

StageOutcomes == {"ok", "failed", "raised"}

\* lines 171-177: the result dict before anything ran
NewResult == [returned |-> FALSE, success |-> FALSE, stages_completed |-> 0, error_message |-> ""]

\* lines 336-360 as stage 1 sees it, structured_facts being what
\* build_structured_facts gave: True, False or an exception
Stage1Outcome(structured_facts, io_ok) ==
    IF structured_facts.raised THEN "raised"
    ELSE IF structured_facts.empty THEN "failed"
    ELSE IF io_ok THEN "ok" ELSE "failed"

\* mutant: only an exception stops the pipeline
ProceedsUnlessRaised(outcome) == outcome # "raised"

\* lines 207, 219, 231: "if not stageN_success: ... return result"
Proceeds(outcome) == outcome = "ok"

InitStages ==
    /\ pc = "pipeline_start"
    /\ raw_data \in StageInputs
    /\ pipeline_result = NewResult
    /\ stages_run = <<>>
    /\ top_data = <<>>
    /\ facts = NoFacts
    /\ arg = None
    /\ ret = NoRet
    /\ amounts = <<>>
    /\ metrics = ZeroMetrics
    /\ text = <<>>
    /\ exalter = <<>>
    /\ hm_list_df = <<>>
    /\ seat_player_info = DefaultPlayerInfo(<<>>)
    /\ output_file = NoFile
    /\ success = FALSE
    /\ ThreadsIdle /\ BatchIdle /\ RetryIdle /\ ChatIdle /\ BotIdle

StagesRest ==
    UNCHANGED <<top_data, raw_data, facts, arg, ret, amounts, metrics, text, exalter,
                hm_list_df, seat_player_info, output_file, success,
                threadVars, batchVars, retryVars, chatVars, botVars>>

\* the result returned with the error message set (lines 188-189, 208-209,
\* 220-221, 232-233) or from the except clause (lines 251-257)
ReturnedWith(message) == [pipeline_result EXCEPT !.returned = TRUE, !.error_message = message]

\* lines 181-199: the file is read and its first stock looked up
ReadInput ==
    /\ pc = "pipeline_start"
    /\ \E readable \in BOOLEAN :
          IF ~readable
          THEN /\ pipeline_result' = ReturnedWith("exception")
               /\ pc' = "returned"
          ELSE IF Stocks(raw_data) = <<>>
          THEN /\ pipeline_result' = ReturnedWith("no_stocks")
               /\ pc' = "returned"
          ELSE /\ pc' = "stage1"
               /\ UNCHANGED pipeline_result
    /\ UNCHANGED stages_run
    /\ StagesRest

\* stage k has run with the outcome given: lines 202-211, 214-223, 226-235
StageRan(k, outcome, next_pc) ==
    /\ stages_run' = Append(stages_run, <<k, outcome>>)
    /\ IF Proceeds(outcome)
       THEN /\ pipeline_result' = [pipeline_result EXCEPT !.stages_completed = k]
            /\ pc' = next_pc
       ELSE /\ pipeline_result' = ReturnedWith(IF outcome = "raised" THEN "exception"
                                               ELSE "stage_failed")
            /\ pc' = "returned"
    /\ StagesRest

Stage1FactsExtraction ==
    /\ pc = "stage1"
    /\ \E structured_facts \in {build_structured_facts(raw_data)}, io_ok \in BOOLEAN :
          \E outcome \in {Stage1Outcome(structured_facts, io_ok)} :
             StageRan(1, outcome, "stage2")

Stage2LlmEnhancement ==
    /\ pc = "stage2"
    /\ \E outcome \in StageOutcomes : StageRan(2, outcome, "stage3")

Stage3NarrativeGeneration ==
    /\ pc = "stage3"
    /\ \E outcome \in StageOutcomes : StageRan(3, outcome, "copy")

\* lines 238-257: the summary copy (its failure is logged only) and the return
CopySummaryAndReturn ==
    /\ pc = "copy"
    /\ \E copied \in BOOLEAN :
          pipeline_result' = [pipeline_result EXCEPT !.success = TRUE, !.returned = TRUE]
    /\ pc' = "returned"
    /\ UNCHANGED stages_run
    /\ StagesRest

NextStages ==
    \/ ReadInput
    \/ Stage1FactsExtraction
    \/ Stage2LlmEnhancement
    \/ Stage3NarrativeGeneration
    \/ CopySummaryAndReturn

SpecStages == InitStages /\ [][NextStages]_vars

StagesSucceeded == Len(SelectSeq(stages_run, LAMBDA e : e[2] = "ok"))

\* C27: the stages that ran are stage 1, 2, 3 in this order, each after the
\* one before it succeeded; stages_completed is at every moment the number of
\* stages that succeeded and never decreases; the returned result has
\* success = true exactly when stages_completed = 3, so an input without
\* stocks or an exception gives success = false
C27_StagesInOrder ==
    /\ [](/\ Len(stages_run) <= 3
          /\ \A i \in 1..Len(stages_run) :
                /\ stages_run[i][1] = i
                /\ i < Len(stages_run) => stages_run[i][2] = "ok"
          /\ pipeline_result.stages_completed = StagesSucceeded
          /\ pipeline_result.success => pipeline_result.returned
          /\ pipeline_result.returned =>
                /\ pipeline_result.success <=> pipeline_result.stages_completed = 3
                /\ pipeline_result.error_message # "" => ~pipeline_result.success
                /\ Stocks(raw_data) = <<>> => ~pipeline_result.success)
    /\ [][pipeline_result'.stages_completed >= pipeline_result.stages_completed]_vars

\* C27 witness: a run in which the three stages succeeded one after the other
\* returned success with stages_completed = 3
C27_Witness ==
    /\ pc = "returned"
    /\ pipeline_result.success
    /\ pipeline_result.stages_completed = 3
    /\ stages_run = << <<1, "ok">>, <<2, "ok">>, <<3, "ok">> >>

(***************************************************************************)
(* HuoshanDeepSeekInterface.generate_json_output: up to max_retries        *)
(* requests; a request raises or returns a content, which is None or a     *)
(* text.  A text is a sequence of tokens: "F" the opening fence ```json,   *)
(* "E" the closing fence ```, " " white space, "{}" a JSON object, "null"  *)
(* the JSON null, "x" anything that is not JSON.                           *)
(***************************************************************************)
MaxRetriesTried == 3

RequestRaised == [kind |-> "exception", content |-> <<>>]

NoContent == [kind |-> "none", content |-> <<>>]

Content(tokens) == [kind |-> "text", content |-> tokens]

\* what a request can give
ApiResponses ==
    { RequestRaised, NoContent,
      Content(<<>>), Content(<<" ">>),
      Content(<<"{}">>), Content(<<"F", " ", "{}", " ", "E">>), Content(<<" ", "{}">>),
      Content(<<"x">>), Content(<<"F", "E">>), Content(<<"{}", "x">>),
      Content(<<"null">>) }

\* line 282: not content or content.strip() == ""
IsEmptyContent(response) == response.kind = "none" \/ Strip(response.content) = <<>>

\* lines 293-297: the fences are cut off and the text is stripped
Unfenced(tokens) ==
    LET opened == IF tokens # <<>> /\ Head(tokens) = "F" THEN Tail(tokens) ELSE tokens
        closed == IF opened # <<>> /\ opened[Len(opened)] = "E"
                  THEN SubSeq(opened, 1, Len(opened) - 1) ELSE opened
    IN  Strip(closed)

\* line 299: json.loads of the text: a dict, None for null, or JSONDecodeError
JsonLoads(tokens) ==
    IF tokens = <<"{}">> THEN [ok |-> TRUE, value |-> Str(<<"{}">>)]
    ELSE IF tokens = <<"null">> THEN [ok |-> TRUE, value |-> None]
    ELSE [ok |-> FALSE, value |-> None]

\* the attempt gave a content that is not empty and parses
AttemptSucceeds(response) ==
    /\ response.kind = "text"
    /\ ~IsEmptyContent(response)
    /\ JsonLoads(Unfenced(response.content)).ok

\* mutant: the first failure is the last attempt
IsLastAttemptAlways(attempt, retries) == attempt >= 0

\* lines 284, 305, 314: "if attempt < max_retries - 1: continue", else return None
IsLastAttempt(attempt, retries) == ~(attempt < retries - 1)

NotReturned == [returned |-> FALSE, value |-> None]

ReturnedValue(v) == [returned |-> TRUE, value |-> v]

InitRetry ==
    /\ pc = "retrying"
    /\ max_retries \in 0..MaxRetriesTried
    /\ api_calls = <<>>
    /\ json_output = NotReturned
    /\ top_data = <<>>
    /\ raw_data = NoRawData
    /\ facts = NoFacts
    /\ arg = None
    /\ ret = NoRet
    /\ amounts = <<>>
    /\ metrics = ZeroMetrics
    /\ text = <<>>
    /\ exalter = <<>>
    /\ hm_list_df = <<>>
    /\ seat_player_info = DefaultPlayerInfo(<<>>)
    /\ output_file = NoFile
    /\ success = FALSE
    /\ ThreadsIdle /\ BatchIdle /\ StagesIdle /\ ChatIdle /\ BotIdle

RetryRest ==
    UNCHANGED <<top_data, raw_data, facts, arg, ret, amounts, metrics, text, exalter,
                hm_list_df, seat_player_info, output_file, success, max_retries,
                threadVars, batchVars, stageVars, chatVars, botVars>>

\* lines 265-317: one iteration of the loop, attempt = the number of calls made
Attempt ==
    /\ pc = "retrying"
    /\ Len(api_calls) < max_retries
    /\ \E response \in ApiResponses :
          /\ api_calls' = Append(api_calls, response)
          /\ IF AttemptSucceeds(response)
             THEN /\ json_output' = ReturnedValue(JsonLoads(Unfenced(response.content)).value)
                  /\ pc' = "returned"
             ELSE IF IsLastAttempt(Len(api_calls), max_retries)
             THEN /\ json_output' = ReturnedValue(None)
                  /\ pc' = "returned"
             ELSE UNCHANGED <<json_output, pc>>
    /\ RetryRest

\* lines 319-320: the loop ended without a return
LoopExhausted ==
    /\ pc = "retrying"
    /\ Len(api_calls) >= max_retries
    /\ json_output' = ReturnedValue(None)
    /\ pc' = "returned"
    /\ UNCHANGED api_calls
    /\ RetryRest

NextRetry == Attempt \/ LoopExhausted

SpecRetry == InitRetry /\ [][NextRetry]_vars

AllFailed == \A i \in 1..Len(api_calls) : ~AttemptSucceeds(api_calls[i])

\* at most max_retries calls; every call but the last failed; a failure is
\* followed by another call while calls remain; a success is returned at once
RetryDiscipline ==
    /\ Len(api_calls) <= max_retries
    /\ \A i \in 1..(Len(api_calls) - 1) : ~AttemptSucceeds(api_calls[i])
    /\ ~json_output.returned => AllFailed /\ (Len(api_calls) < max_retries \/ max_retries = 0)
    /\ (json_output.returned /\ ~AllFailed) =>
          json_output.value = JsonLoads(Unfenced(api_calls[Len(api_calls)].content)).value
    /\ (json_output.returned /\ AllFailed) =>
          json_output.value = None /\ Len(api_calls) = max_retries

\* C28 as stated: at most max_retries calls are made, the parsed JSON of the
\* first attempt with a non-empty content that parses is returned with no call
\* after it, every failed attempt is retried, and None is returned if and
\* only if all max_retries attempts failed
C28_NoneIffAllFailed ==
    /\ RetryDiscipline
    /\ json_output.returned =>
          (json_output.value = None <=> (AllFailed /\ Len(api_calls) = max_retries))

\* C28 amended: as stated, except that None is returned if and only if all
\* max_retries attempts failed or the first content that parses is the JSON
\* null
C28_NoneIffAllFailedOrNull ==
    /\ RetryDiscipline
    /\ json_output.returned =>
          (json_output.value = None <=>
              \/ AllFailed /\ Len(api_calls) = max_retries
              \/ /\ ~AllFailed
                 /\ Unfenced(api_calls[Len(api_calls)].content) = <<"null">>)

\* C28 witness: an empty content, then a request that raised, then a fenced
\* JSON object on the third and last attempt, which is returned
C28_Witness ==
    /\ pc = "returned"
    /\ max_retries = 3
    /\ api_calls = << Content(<<" ">>), RequestRaised, Content(<<"F", " ", "{}", " ", "E">>) >>
    /\ json_output = ReturnedValue(Str(<<"{}">>))

(***************************************************************************)
(* The multi-turn conversation of HuoshanDeepSeekInterface (chatbot        *)
(* directory): start_conversation, add_user_message,                       *)
(* get_assistant_response_stream and clear_conversation called in any      *)
(* order.  A message is [role, content]; the streamed request gives an     *)
(* answer, gives no answer text, or raises.                                *)
(***************************************************************************)
MaxHistory == 4

Message(role, content) == [role |-> role, content |-> content]

\* system_message: absent, empty or a prompt
SystemMessages == {None, Str(<<>>), Str(<<"s">>)}

\* message: two questions, a question in white space, white space only, not
\* a str
UserMessages == {Str(<<"q">>), Str(<<"p">>), Str(<<" ", "q">>), Str(<<" ">>), None}

ApiOutcomes == {"answered", "empty", "raised"}

AnswerText == <<"a">>

\* the text returned in place of an answer when the request raised (line 301)
FailureText == <<"f", "a", "i", "l", "e", "d">>

\* lines 199-204
start_conversation(system_message) ==
    IF system_message.kind = "str" /\ system_message.s # <<>>
    THEN << Message("system", system_message.s) >>
    ELSE <<>>

\* lines 214-220: ValueError for a message that is no text or blank
add_user_message(history, message) ==
    IF message.kind # "str" \/ Strip(message.s) = <<>>
    THEN [raised |-> TRUE, history |-> history]
    ELSE [raised |-> FALSE, history |-> Append(history, Message("user", Strip(message.s)))]

\* lines 237-301: ValueError for an empty history or a last message that is
\* not the user's; the answer is appended when it is not empty; an exception
\* of the request is turned into a returned text
get_assistant_response_stream(history, api) ==
    IF history = <<>> \/ history[Len(history)].role # "user"
    THEN [raised |-> TRUE, history |-> history, answer |-> <<>>]
    ELSE IF api = "answered"
    THEN [raised |-> FALSE, history |-> Append(history, Message("assistant", AnswerText)),
          answer |-> AnswerText]
    ELSE IF api = "empty"
    THEN [raised |-> FALSE, history |-> history, answer |-> <<>>]
    ELSE [raised |-> FALSE, history |-> history, answer |-> FailureText]

InitChat ==
    /\ pc = "created"
    /\ conversation_history = <<>>
    /\ call_raised = FALSE
    /\ top_data = <<>>
    /\ raw_data = NoRawData
    /\ facts = NoFacts
    /\ arg = None
    /\ ret = NoRet
    /\ amounts = <<>>
    /\ metrics = ZeroMetrics
    /\ text = <<>>
    /\ exalter = <<>>
    /\ hm_list_df = <<>>
    /\ seat_player_info = DefaultPlayerInfo(<<>>)
    /\ output_file = NoFile
    /\ success = FALSE
    /\ ThreadsIdle /\ BatchIdle /\ StagesIdle /\ RetryIdle /\ BotIdle

ChatRest ==
    UNCHANGED <<top_data, raw_data, facts, arg, ret, amounts, metrics, text, exalter,
                hm_list_df, seat_player_info, output_file, success,
                threadVars, batchVars, stageVars, retryVars, botVars>>

StartConversation ==
    /\ \E system_message \in SystemMessages :
          conversation_history' = start_conversation(system_message)
    /\ call_raised' = FALSE
    /\ pc' = "start_conversation"
    /\ ChatRest

AddUserMessage ==
    /\ Len(conversation_history) < MaxHistory
    /\ \E message \in UserMessages :
          LET r == add_user_message(conversation_history, message)
          IN  /\ conversation_history' = r.history
              /\ call_raised' = r.raised
    /\ pc' = "add_user_message"
    /\ ChatRest

GetAssistantResponseStream ==
    /\ Len(conversation_history) < MaxHistory
    /\ \E api \in ApiOutcomes :
          LET r == get_assistant_response_stream(conversation_history, api)
          IN  /\ conversation_history' = r.history
              /\ call_raised' = r.raised
    /\ pc' = "get_assistant_response_stream"
    /\ ChatRest

ClearConversation ==
    /\ conversation_history' = <<>>
    /\ call_raised' = FALSE
    /\ pc' = "clear_conversation"
    /\ ChatRest

NextChat == StartConversation \/ AddUserMessage \/ GetAssistantResponseStream \/ ClearConversation

SpecChat == InitChat /\ [][NextChat]_vars

\* the messages after the system message, if there is one
Turns(history) ==
    IF history # <<>> /\ history[1].role = "system" THEN Tail(history) ELSE history

\* C29 as stated: the history holds at most one system message and only in
\* the first place, and after it user and assistant messages alternate
\* strictly, starting with a user message, so no two user messages follow
\* each other
C29_HistoryWellFormed ==
    /\ \A i \in 1..Len(conversation_history) :
          conversation_history[i].role = "system" => i = 1
    /\ \A i \in 1..Len(Turns(conversation_history)) :
          Turns(conversation_history)[i].role = IF i % 2 = 1 THEN "user" ELSE "assistant"

(***************************************************************************)
(* LongHuBangCommentChatbot on that interface: load_stock_data,            *)
(* start_conversation_session, get_response and reset_conversation.        *)
(* current_stock_data is None, a complete analysis, or one whose           *)
(* stock_info lacks a field.                                               *)
(***************************************************************************)
StockDataInputs == {"missing_fields", "incomplete", "complete"}

SystemPrompt == Str(<<"s">>)

NoResponse == [returned |-> FALSE]

ChatResponse(content, word_count, ok, api) ==
    [returned |-> TRUE, content |-> content, word_count |-> word_count,
     success |-> ok, api |-> api]

\* lines 196-227: True when the data is loaded and complete, False otherwise
SessionCanStart == current_stock_data = "complete"

InitBot ==
    /\ pc = "created"
    /\ conversation_history = <<>>
    /\ call_raised = FALSE
    /\ is_conversation_started = FALSE
    /\ current_stock_data = "none"
    /\ conversation_context = <<>>
    /\ chat_response = NoResponse
    /\ top_data = <<>>
    /\ raw_data = NoRawData
    /\ facts = NoFacts
    /\ arg = None
    /\ ret = NoRet
    /\ amounts = <<>>
    /\ metrics = ZeroMetrics
    /\ text = <<>>
    /\ exalter = <<>>
    /\ hm_list_df = <<>>
    /\ seat_player_info = DefaultPlayerInfo(<<>>)
    /\ output_file = NoFile
    /\ success = FALSE
    /\ ThreadsIdle /\ BatchIdle /\ StagesIdle /\ RetryIdle

BotRest ==
    UNCHANGED <<top_data, raw_data, facts, arg, ret, amounts, metrics, text, exalter,
                hm_list_df, seat_player_info, output_file, success, call_raised,
                threadVars, batchVars, stageVars, retryVars>>

\* lines 168-187: the data is kept once the two required fields are there
LoadStockData ==
    /\ \E json_data \in StockDataInputs :
          current_stock_data' = IF json_data = "missing_fields" THEN current_stock_data
                                ELSE json_data
    /\ pc' = "load_stock_data"
    /\ UNCHANGED <<conversation_history, is_conversation_started, conversation_context,
                   chat_response>>
    /\ BotRest

\* lines 196-227
StartConversationSession ==
    /\ IF SessionCanStart
       THEN /\ conversation_history' = start_conversation(SystemPrompt)
            /\ is_conversation_started' = TRUE
            /\ conversation_context' = <<>>
       ELSE UNCHANGED <<conversation_history, is_conversation_started, conversation_context>>
    /\ pc' = "start_conversation_session"
    /\ UNCHANGED <<current_stock_data, chat_response>>
    /\ BotRest

\* lines 241-312: the whole of get_response for a question and an outcome of
\* the request
GetResponse ==
    /\ Len(conversation_history) < MaxHistory
    /\ \E user_question \in UserMessages, api \in ApiOutcomes :
          IF ~is_conversation_started /\ ~SessionCanStart
          THEN /\ chat_response' = ChatResponse(<<>>, 0, FALSE, "not_called")
               /\ UNCHANGED <<conversation_history, is_conversation_started,
                              conversation_context>>
          ELSE LET started_history == IF is_conversation_started THEN conversation_history
                                      ELSE start_conversation(SystemPrompt)
                   context == IF is_conversation_started THEN conversation_context ELSE <<>>
                   added == add_user_message(started_history, user_question)
                   r == get_assistant_response_stream(added.history, api)
               IN  /\ is_conversation_started' = TRUE
                   /\ IF added.raised \/ r.raised
                      THEN /\ conversation_history' = added.history
                           /\ conversation_context' = context
                           /\ chat_response' = ChatResponse(<<>>, 0, FALSE, "not_called")
                      ELSE /\ conversation_history' = r.history
                           /\ conversation_context' =
                                 Append(context, [user |-> user_question.s, assistant |-> r.answer])
                           /\ chat_response' = ChatResponse(r.answer, Len(r.answer), TRUE, api)
    /\ pc' = "get_response"
    /\ UNCHANGED current_stock_data
    /\ BotRest

\* lines 334-343
ResetConversation ==
    /\ conversation_history' = <<>>
    /\ is_conversation_started' = FALSE
    /\ conversation_context' = <<>>
    /\ pc' = "reset_conversation"
    /\ UNCHANGED <<current_stock_data, chat_response>>
    /\ BotRest

NextBot == LoadStockData \/ StartConversationSession \/ GetResponse \/ ResetConversation

SpecBot == InitBot /\ [][NextBot]_vars

\* C30 as stated: a get_response call returns success = true and appends to
\* conversation_context only when the request produced an answer, and when
\* the session cannot be started or the request failed it returns success =
\* false and leaves conversation_context as it was
C30_SuccessOnlyWithAnswer ==
    [][pc' = "get_response" =>
          /\ chat_response'.returned
          /\ chat_response'.success => chat_response'.api = "answered"
          /\ Len(conversation_context') > Len(conversation_context) =>
                chat_response'.api = "answered"
          /\ chat_response'.api \in {"raised", "not_called"} =>
                /\ ~chat_response'.success
                /\ conversation_context' = conversation_context]_vars

====
